---------------------------- MODULE Spec2Model ----------------------------
(***************************************************************************)
(* A model of mampy's mesh-component algebra (mampy.core.components), its  *)
(* cache layer (mampy.core.cache) and its component collection             *)
(* (mampy.core.selectionlist / mampy.core.listadapters).                   *)
(*                                                                         *)
(* The Maya scene is the external topology provider: a mesh is a record of *)
(* its vertex count, edge endpoints, polygon vertex lists, UV ownership    *)
(* and UV shell ids, and the provider's queries are operators over it.     *)
(***************************************************************************)
EXTENDS Integers, Sequences, FiniteSets, TLC

VARIABLES
    mesh,           \* AbstractComponent.dagpath: the mesh the component is bound to
    kind,           \* SingleIndexComponent._mtype
    indices,        \* SingleIndexComponent._indexed: the index set
    space,          \* AbstractComponent.space
    c_points,       \* SingleIndexComponent._points: space -> cached value
    c_bbox,         \* SingleIndexComponent._bbox: space -> cached value
    c_mesh_shells,  \* SingleIndexComponent._mesh_shells
    c_map_shells,   \* SingleIndexComponent._map_shells
    c_normals,      \* SingleIndexComponent._normals
    adds,           \* how many add() calls were made
    memo,           \* func._cache of the instance's memoized methods: key -> value
    keyed,          \* self._cache of the instance: key -> value
    lazy,           \* self.__dict__ entries written by cache.property: name -> value
    child_memo,     \* func._cache of a collaborator's memoized method
    version,        \* the generation of the data the cached computations read
    inval,          \* the caches as the last invalidating call found and left them
    slist,          \* ComponentList._slist: the entries, by position
    lcache,         \* ComponentList._cache: position -> cached component
    copied,         \* the copy made of the collection, if any: <<its _slist>>
    history_list,   \* History.history_list: the stored elements, oldest first
    current_item,   \* History.current_item: the cursor, 0 or a negative index
    call            \* the last call and what it returned: [op, raised, val]

compVars == <<mesh, kind, indices, space, c_points, c_bbox, c_mesh_shells,
              c_map_shells, c_normals, adds>>

objVars == <<memo, keyed, lazy, child_memo, version, inval>>

listVars == <<slist, lcache, copied>>

histVars == <<history_list, current_item>>

callVars == <<call>>

vars == <<compVars, objVars, listVars, histVars, callVars>>

-----------------------------------------------------------------------------
(* The topology provider: meshes                                           *)

Kinds == {"vert", "edge", "face", "map"}
Spaces == {"world", "object"}

Range(f) == {f[x] : x \in DOMAIN f}

\* A mesh of the scene: its vertex count, edge endpoints (ev), polygon vertices
\* (fv), the vertex each UV point belongs to (uvv), the UV points of each
\* polygon (fuv), the shell id of each UV point (uvshell), the object-space
\* vertex positions (pos), the UV coordinates (uv) and the translation of its
\* transform (translate).

\* A 2x2 subdivided plane: 9 vertices, 12 edges, 4 faces, one UV shell.
Plane2x2 ==
    [nv |-> 9,
     ev |-> [e \in 0..11 |->
              CASE e = 0 -> <<0, 1>> [] e = 1 -> <<1, 2>> [] e = 2 -> <<3, 4>>
                [] e = 3 -> <<4, 5>> [] e = 4 -> <<6, 7>> [] e = 5 -> <<7, 8>>
                [] e = 6 -> <<0, 3>> [] e = 7 -> <<1, 4>> [] e = 8 -> <<2, 5>>
                [] e = 9 -> <<3, 6>> [] e = 10 -> <<4, 7>> [] OTHER -> <<5, 8>>],
     fv |-> [f \in 0..3 |->
              CASE f = 0 -> {0, 1, 3, 4} [] f = 1 -> {1, 2, 4, 5}
                [] f = 2 -> {3, 4, 6, 7} [] OTHER -> {4, 5, 7, 8}],
     uvv |-> [u \in 0..8 |-> u],
     fuv |-> [f \in 0..3 |->
              CASE f = 0 -> {0, 1, 3, 4} [] f = 1 -> {1, 2, 4, 5}
                [] f = 2 -> {3, 4, 6, 7} [] OTHER -> {4, 5, 7, 8}],
     uvshell |-> [u \in 0..8 |-> 0],
     nshells |-> 1,
     pos |-> [v \in 0..8 |-> <<v % 3, 0, v \div 3>>],
     uv |-> [u \in 0..8 |-> <<u % 3, u \div 3>>],
     translate |-> <<5, 0, 0>>]

\* Two disjoint quads: 8 vertices, 8 edges, 2 faces, two UV shells.
TwoQuads ==
    [nv |-> 8,
     ev |-> [e \in 0..7 |->
              CASE e = 0 -> <<0, 1>> [] e = 1 -> <<1, 2>> [] e = 2 -> <<2, 3>>
                [] e = 3 -> <<3, 0>> [] e = 4 -> <<4, 5>> [] e = 5 -> <<5, 6>>
                [] e = 6 -> <<6, 7>> [] OTHER -> <<7, 4>>],
     fv |-> [f \in 0..1 |-> IF f = 0 THEN {0, 1, 2, 3} ELSE {4, 5, 6, 7}],
     uvv |-> [u \in 0..7 |-> u],
     fuv |-> [f \in 0..1 |-> IF f = 0 THEN {0, 1, 2, 3} ELSE {4, 5, 6, 7}],
     uvshell |-> [u \in 0..7 |-> IF u < 4 THEN 0 ELSE 1],
     nshells |-> 2,
     pos |-> [v \in 0..7 |->
               <<(IF v % 4 \in {1, 2} THEN 1 ELSE 0) + (IF v < 4 THEN 0 ELSE 3),
                 0, IF v % 4 \in {2, 3} THEN 1 ELSE 0>>],
     uv |-> [u \in 0..7 |->
              <<(IF u % 4 \in {1, 2} THEN 1 ELSE 0) + (IF u < 4 THEN 0 ELSE 3),
                IF u % 4 \in {2, 3} THEN 1 ELSE 0>>],
     translate |-> <<5, 0, 0>>]

\* A closed tetrahedron: 4 vertices, 6 edges, 4 faces, no boundary.
Tetra ==
    [nv |-> 4,
     ev |-> [e \in 0..5 |->
              CASE e = 0 -> <<0, 1>> [] e = 1 -> <<0, 2>> [] e = 2 -> <<0, 3>>
                [] e = 3 -> <<1, 2>> [] e = 4 -> <<1, 3>> [] OTHER -> <<2, 3>>],
     fv |-> [f \in 0..3 |->
              CASE f = 0 -> {0, 1, 2} [] f = 1 -> {0, 1, 3}
                [] f = 2 -> {0, 2, 3} [] OTHER -> {1, 2, 3}],
     uvv |-> [u \in 0..3 |-> u],
     fuv |-> [f \in 0..3 |->
              CASE f = 0 -> {0, 1, 2} [] f = 1 -> {0, 1, 3}
                [] f = 2 -> {0, 2, 3} [] OTHER -> {1, 2, 3}],
     uvshell |-> [u \in 0..3 |-> 0],
     nshells |-> 1,
     pos |-> [v \in 0..3 |->
               <<IF v = 1 THEN 1 ELSE 0, IF v = 2 THEN 1 ELSE 0, IF v = 3 THEN 1 ELSE 0>>],
     uv |-> [u \in 0..3 |-> <<u % 2, u \div 2>>],
     translate |-> <<5, 0, 0>>]

\* A 2x1 strip: two quads sharing the edge (1,4), cut along it in UV space:
\* 6 vertices, 7 edges, 2 faces, 8 UV points in two UV shells.
Strip ==
    [nv |-> 6,
     ev |-> [e \in 0..6 |->
              CASE e = 0 -> <<0, 1>> [] e = 1 -> <<1, 2>> [] e = 2 -> <<3, 4>>
                [] e = 3 -> <<4, 5>> [] e = 4 -> <<0, 3>> [] e = 5 -> <<1, 4>>
                [] OTHER -> <<2, 5>>],
     fv |-> [f \in 0..1 |-> IF f = 0 THEN {0, 1, 3, 4} ELSE {1, 2, 4, 5}],
     uvv |-> [u \in 0..7 |->
              CASE u = 0 -> 0 [] u = 1 -> 1 [] u = 2 -> 3 [] u = 3 -> 4
                [] u = 4 -> 1 [] u = 5 -> 2 [] u = 6 -> 4 [] OTHER -> 5],
     fuv |-> [f \in 0..1 |-> IF f = 0 THEN {0, 1, 2, 3} ELSE {4, 5, 6, 7}],
     uvshell |-> [u \in 0..7 |-> IF u < 4 THEN 0 ELSE 1],
     nshells |-> 2,
     pos |-> [v \in 0..5 |-> <<v % 3, 0, v \div 3>>],
     uv |-> [u \in 0..7 |->
              <<(u % 2) + (IF u < 4 THEN 0 ELSE 2), (u % 4) \div 2>>],
     translate |-> <<5, 0, 0>>]

\* A triangle with a triangle on each of its edges: 6 vertices, 9 edges,
\* 4 faces; face 0 is the only face off the mesh boundary.
Triforce ==
    [nv |-> 6,
     ev |-> [e \in 0..8 |->
              CASE e = 0 -> <<0, 1>> [] e = 1 -> <<1, 2>> [] e = 2 -> <<2, 0>>
                [] e = 3 -> <<0, 3>> [] e = 4 -> <<3, 1>> [] e = 5 -> <<1, 4>>
                [] e = 6 -> <<4, 2>> [] e = 7 -> <<2, 5>> [] OTHER -> <<5, 0>>],
     fv |-> [f \in 0..3 |->
              CASE f = 0 -> {0, 1, 2} [] f = 1 -> {0, 1, 3}
                [] f = 2 -> {1, 2, 4} [] OTHER -> {0, 2, 5}],
     uvv |-> [u \in 0..5 |-> u],
     fuv |-> [f \in 0..3 |->
              CASE f = 0 -> {0, 1, 2} [] f = 1 -> {0, 1, 3}
                [] f = 2 -> {1, 2, 4} [] OTHER -> {0, 2, 5}],
     uvshell |-> [u \in 0..5 |-> 0],
     nshells |-> 1,
     pos |-> [v \in 0..5 |-> <<v % 3, 0, v \div 3>>],
     uv |-> [u \in 0..5 |-> <<u % 3, u \div 3>>],
     translate |-> <<5, 0, 0>>]

MeshNames == {"plane2x2", "twoquads", "tetra", "strip"}

MFnMesh(m) ==
    CASE m = "plane2x2" -> Plane2x2
      [] m = "twoquads" -> TwoQuads
      [] m = "tetra" -> Tetra
      [] m = "triforce" -> Triforce
      [] OTHER -> Strip

getEdgeVertices(m, e) == MFnMesh(m).ev[e]
getPolygonVertices(m, f) == MFnMesh(m).fv[f]

\* numVertices / numEdges / numPolygons / numUVs of mesh record M, by type.
CountIn(M, k) ==
    CASE k = "vert" -> M.nv
      [] k = "edge" -> Cardinality(DOMAIN M.ev)
      [] k = "face" -> Cardinality(DOMAIN M.fv)
      [] OTHER -> Cardinality(DOMAIN M.uvv)

ElementCount(m, k) == CountIn(MFnMesh(m), k)

Elements(m, k) == 0..(ElementCount(m, k) - 1)

\* The vertices element i of kind k of mesh record M lies on.
VertsIn(M, k, i) ==
    CASE k = "vert" -> {i}
      [] k = "edge" -> Range(M.ev[i])
      [] k = "face" -> M.fv[i]
      [] OTHER -> {M.uvv[i]}

VertsOf(m, k, i) == VertsIn(MFnMesh(m), k, i)

\* Whether element i of kind k and element j of kind l of M are incident.
IncidentIn(M, k, i, l, j) ==
    CASE k = l -> i = j
      [] k = "map" /\ l = "face" -> i \in M.fuv[j]
      [] k = "face" /\ l = "map" -> j \in M.fuv[i]
      [] k \in {"vert", "map"} \/ (k = "edge" /\ l = "face") ->
            VertsIn(M, k, i) \subseteq VertsIn(M, l, j)
      [] OTHER -> VertsIn(M, l, j) \subseteq VertsIn(M, k, i)

\* The elements of kind k of M incident to element j of kind l.
AdjacentIn(M, k, l, j) ==
    {i \in 0..(CountIn(M, k) - 1) : IncidentIn(M, k, i, l, j)}

Adjacent(m, k, l, j) == AdjacentIn(MFnMesh(m), k, l, j)

\* Whether a target element with incident source-kind elements adj is part of
\* the conversion of src under the keyword flags kw.
Converts(adj, src, kw) ==
    CASE "internal" \in kw -> adj # {} /\ adj \subseteq src
      [] "border" \in kw -> adj \cap src # {} /\ ~(adj \subseteq src)
      [] OTHER -> adj \cap src # {}

ConversionIn(M, from, src, to, kw) ==
    {j \in 0..(CountIn(M, to) - 1) : Converts(AdjacentIn(M, from, to, j), src, kw)}

\* cmds.polyListComponentConversion with keyword flags kw: the elements of
\* kind `to` touched by the source set; with internal=True only those all of
\* whose incident source-kind elements are in the source set; with border=True
\* only the touched ones on the border of the selection (touched, not internal).
polyListComponentConversion(m, from, src, to, kw) ==
    ConversionIn(MFnMesh(m), from, src, to, kw)

\* A component wrapping converted indices; getComponent(0) of an empty
\* selection list raises.
Wrapped(r) == [raised |-> r = {}, indices |-> r]

\* AbstractComponent.convert_to: the converted strings are added to a selection
\* list and component 0 of it is wrapped.
convert_to(m, from, src, to, kw) ==
    Wrapped(polyListComponentConversion(m, from, src, to, kw))

\* MFnMesh.onBoundary(face): the face has an edge that belongs to no other face.
onBoundaryIn(M, f) ==
    \E e \in 0..(CountIn(M, "edge") - 1) :
        /\ IncidentIn(M, "edge", e, "face", f)
        /\ \A g \in 0..(CountIn(M, "face") - 1) :
              IncidentIn(M, "face", g, "edge", e) => g = f

\* cmds.polySelect(q=True, edgeBorder=e): truthy iff e is a mesh-boundary edge.
edgeBorderIn(M, e) == Cardinality(AdjacentIn(M, "face", "edge", e)) = 1

\* SingleIndexComponent.is_border(index), on mesh record M
is_border_in(M, k, index) ==
    CASE k = "face" -> onBoundaryIn(M, index)
      [] k = "edge" -> edgeBorderIn(M, index)
      [] OTHER -> \E i \in ConversionIn(M, k, {index}, "edge", {}) : edgeBorderIn(M, i)

\* SingleIndexComponent.is_border(index)
is_border(m, k, index) == is_border_in(MFnMesh(m), k, index)

\* The edges to_edge recovers for a face component converted with border=True:
\* the border edges of every border face of the component.
border_edges_in(M, k, src) ==
    {bidx \in 0..(CountIn(M, "edge") - 1) :
        /\ edgeBorderIn(M, bidx)
        /\ \E bface \in src :
              /\ IncidentIn(M, "edge", bidx, "face", bface)
              /\ is_border_in(M, k, bface)}

\* to_edge after the conversion: the recovered border edges added.
with_border_edges(M, k, src, kw, converted) ==
    IF k = "face" /\ "border" \in kw /\ ~converted.raised
    THEN [raised |-> FALSE, indices |-> converted.indices \cup border_edges_in(M, k, src)]
    ELSE converted

\* SingleIndexComponent.to_edge(**kwargs)
to_edge(m, k, src, kw) ==
    with_border_edges(MFnMesh(m), k, src, kw, convert_to(m, k, src, "edge", kw))

\* SingleIndexComponent.to_face(**kwargs)
to_face(m, k, src, kw) == convert_to(m, k, src, "face", kw)

-----------------------------------------------------------------------------
(* get_connected_components                                                *)

\* The keys of index_vert_map in the order .values() lists them.
RECURSIVE SortedSeq(_)
SortedSeq(S) ==
    IF S = {} THEN <<>>
    ELSE LET x == CHOOSE y \in S : \A z \in S : y <= z
         IN  <<x>> \o SortedSeq(S \ {x})

\* index_vert_map: each edge's first endpoint -> the vertices of every edge of
\* the component that starts there; .values() as a list.
index_vert_map(m, edges) ==
    LET firsts == {getEdgeVertices(m, e)[1] : e \in edges}
        keys == SortedSeq(firsts)
    IN  [n \in 1..Len(keys) |->
            UNION {VertsOf(m, "edge", e) :
                     e \in {x \in edges : getEdgeVertices(m, x)[1] = keys[n]}}]

\* One pass of the for loop of dfs over the buckets, from bucket i on.
\* (Each step's state is bound before the next step reads it.)
RECURSIVE dfs_pass(_, _, _)
dfs_pass(component, st, i) ==
    IF i > Len(component) THEN st
    ELSE CHOOSE r \in
            {dfs_pass(component, st1, i + 1) :
                st1 \in {IF ~st.taken[i] /\ st.node \cap component[i] # {}
                       THEN [node |-> st.node \cup component[i],
                             taken |-> [st.taken EXCEPT ![i] = TRUE],
                             updated |-> TRUE]
                       ELSE st}} : TRUE

\* dfs(node, index): the while True loop, until a pass updates nothing.
RECURSIVE dfs(_, _, _)
dfs(component, node, taken) ==
    CHOOSE r \in
        {IF st2.updated THEN dfs(component, st2.node, st2.taken) ELSE st2 :
            st2 \in {dfs_pass(component,
                             [node |-> node, taken |-> taken, updated |-> FALSE], 1)}} : TRUE

\* get_return_list(node): the vertex group converted back to the caller's type.
get_return_list(m, k, node, convert) ==
    IF ~convert THEN [raised |-> FALSE, indices |-> node]
    ELSE convert_to(m, "vert", node, k,
                    IF k \in {"edge", "face"} THEN {"internal"} ELSE {})

\* connected_vert_indices(component): the vertex groups in the order yielded.
RECURSIVE connected_vert_indices(_, _, _)
connected_vert_indices(component, taken, i) ==
    IF i > Len(component) THEN <<>>
    ELSE IF taken[i] THEN connected_vert_indices(component, taken, i + 1)
         ELSE CHOOSE r \in
                {<<st3.node>> \o connected_vert_indices(component, st3.taken, i + 1) :
                    st3 \in {dfs(component, component[i], [taken EXCEPT ![i] = TRUE])}} : TRUE

\* The groups of an edge component: each vertex group through get_return_list.
connected_groups(m, k, edges, convert) ==
    CHOOSE r \in
        {IF \E n \in DOMAIN grps : grps[n].raised
         THEN [raised |-> TRUE, groups |-> <<>>]
         ELSE [raised |-> FALSE, groups |-> [n \in DOMAIN grps |-> grps[n].indices]] :
            grps \in
                {[n \in DOMAIN nds |-> get_return_list(m, k, nds[n], convert)] :
                    nds \in
                        {connected_vert_indices(bkts, [n \in DOMAIN bkts |-> FALSE], 1) :
                            bkts \in {index_vert_map(m, edges)}}}} : TRUE

\* SingleIndexComponent.get_connected_components(convert): the list of groups
\* (index sets of the caller's type), or raised when a conversion raises.
get_connected_components(m, k, idx, convert) ==
    CHOOSE r \in
        {IF ecomp.raised THEN [raised |-> TRUE, groups |-> <<>>]
         ELSE connected_groups(m, k, ecomp.indices, convert) :
            ecomp \in
                {IF k = "edge" THEN [raised |-> FALSE, indices |-> idx]
                 ELSE to_edge(m, k, idx,
                              IF k \in {"vert", "map"} THEN {"internal"} ELSE {})}} : TRUE

-----------------------------------------------------------------------------
(* Shells, points and bounding box                                         *)

\* SingleIndexComponent.is_complete()
is_complete(m, k, idx) == ElementCount(m, k) = Cardinality(idx)

\* The faces of M that share an edge with a face of S.
EdgeNeighbours(M, S) ==
    {g \in 0..(CountIn(M, "face") - 1) :
        \E e \in 0..(CountIn(M, "edge") - 1) :
            /\ IncidentIn(M, "edge", e, "face", g)
            /\ \E h \in S : IncidentIn(M, "edge", e, "face", h)}

\* A polySelect that extends the face by one ring of neighbours only.
extendOneRing(m, S) == S \cup EdgeNeighbours(MFnMesh(m), S)

\* cmds.polySelect(q=True, ets=index, ns=True): every face of the mesh shell
\* that holds face `index`, grown over faces that share an edge.
RECURSIVE extendToShell(_, _)
extendToShell(m, S) ==
    CHOOSE r \in
        {IF grown1 = S THEN S ELSE extendToShell(m, grown1) :
            grown1 \in {S \cup EdgeNeighbours(MFnMesh(m), S)}} : TRUE

\* A dfs that never pushes the faces still unseen: it stops after one shell.
shells_dfs_first_only(m, control_set, seen, stack) ==
    IF stack = <<>> THEN <<>> ELSE <<extendToShell(m, {stack[Len(stack)]})>>

\* dfs(control_set, start) of mesh_shells: the shells in the order yielded.
RECURSIVE shells_dfs(_, _, _, _)
shells_dfs(m, control_set, seen, stack) ==
    IF stack = <<>> THEN <<>>
    ELSE CHOOSE r \in
            {IF stack[Len(stack)] \in seen
             THEN shells_dfs(m, control_set, seen, SubSeq(stack, 1, Len(stack) - 1))
             ELSE <<shell1>>
                    \o shells_dfs(m, control_set, seen \cup shell1,
                                  SubSeq(stack, 1, Len(stack) - 1)
                                    \o SortedSeq(control_set \ (seen \cup shell1))) :
                shell1 \in {IF stack[Len(stack)] \in seen THEN {}
                            ELSE extendToShell(m, {stack[Len(stack)]})}} : TRUE

\* The shells found from the faces of the component, each converted to type k.
shells_of_faces(m, k, faces) ==
    CHOOSE r \in
        {IF \E n \in DOMAIN conv1 : conv1[n].raised
         THEN [raised |-> TRUE, shells |-> <<>>]
         ELSE [raised |-> FALSE,
               shells |-> [n \in 0..(Len(conv1) - 1) |-> conv1[n + 1].indices]] :
            conv1 \in
                {[n \in DOMAIN shells1 |->
                    IF k = "face" THEN [raised |-> FALSE, indices |-> shells1[n]]
                    ELSE convert_to(m, "face", shells1[n], k, {})] :
                    shells1 \in
                        {shells_dfs(m, faces, {},
                                    <<CHOOSE f \in faces : \A g \in faces : f <= g>>)}}} : TRUE

\* The body of the mesh_shells property when nothing is cached: idx -> shell,
\* each shell converted to the component's own type.
mesh_shells(m, k, idx) ==
    CHOOSE r \in
        {IF faces1.raised THEN [raised |-> TRUE, shells |-> <<>>]
         ELSE shells_of_faces(m, k, faces1.indices) :
            faces1 \in {to_face(m, k, idx, {})}} : TRUE

\* MFnMesh.getUvShellsIds(): (count, array)
getUvShellsIds(m) == [count |-> MFnMesh(m).nshells, array |-> MFnMesh(m).uvshell]

\* A map_shells that collects, per shell id, the component's own indices only.
map_shells_own_indices(m, k, idx) ==
    [raised |-> ~(idx \subseteq DOMAIN getUvShellsIds(m).array),
     shells |-> [w \in {getUvShellsIds(m).array[i] :
                          i \in idx \cap DOMAIN getUvShellsIds(m).array} |->
                   {i \in idx \cap DOMAIN getUvShellsIds(m).array :
                       getUvShellsIds(m).array[i] = w}]]

\* The body of the map_shells property when nothing is cached: shell id -> the
\* indices added to it; array[idx] of an index past the UV array raises.
map_shells(m, k, idx) ==
    LET ids == getUvShellsIds(m)
        complete == is_complete(m, k, idx)
        wanted == IF complete THEN 0..(ids.count - 1)
                  ELSE {ids.array[i] : i \in idx \cap DOMAIN ids.array}
    IN  IF ~complete /\ ~(idx \subseteq DOMAIN ids.array)
        THEN [raised |-> TRUE, shells |-> <<>>]
        ELSE [raised |-> FALSE,
              shells |-> [w \in wanted |->
                            {i \in DOMAIN ids.array : ids.array[i] = w}]]

\* The rotation of every mesh's transform: a quarter turn about the z axis.
Turned(p) == <<-p[2], p[1], p[3]>>

\* mesh.getPoints(space): the position of every vertex, in object space or
\* turned and moved by the transform in world space.
getPoints(m, sp) ==
    [v \in DOMAIN MFnMesh(m).pos |->
        IF sp = "world"
        THEN [c \in 1..3 |-> Turned(MFnMesh(m).pos[v])[c] + MFnMesh(m).translate[c]]
        ELSE MFnMesh(m).pos[v]]

\* The object-space normal of face f, not normalised: the faces of the flat
\* meshes look up, those of the tetrahedron outwards.
PolygonNormal(m, f) ==
    IF m = "tetra"
    THEN CASE f = 0 -> <<0, 0, -1>> [] f = 1 -> <<0, -1, 0>>
           [] f = 2 -> <<-1, 0, 0>> [] OTHER -> <<1, 1, 1>>
    ELSE <<0, 1, 0>>

\* mesh.getPolygonNormal(f, space)
getPolygonNormal(m, f, sp) ==
    IF sp = "world" THEN Turned(PolygonNormal(m, f)) ELSE PolygonNormal(m, f)

\* The sum of the normals of the faces F.
RECURSIVE SumOfNormals(_, _, _)
SumOfNormals(m, F, sp) ==
    IF F = {} THEN <<0, 0, 0>>
    ELSE LET f == CHOOSE g \in F : TRUE
             n == getPolygonNormal(m, f, sp)
             rest == SumOfNormals(m, F \ {f}, sp)
         IN  <<n[1] + rest[1], n[2] + rest[2], n[3] + rest[3]>>

\* mesh.getVertexNormals(False, space): for every vertex the average, not
\* normalised, of the normals of the faces around it.
getVertexNormals(m, sp) ==
    [v \in 0..(MFnMesh(m).nv - 1) |-> SumOfNormals(m, Adjacent(m, "face", "vert", v), sp)]

\* list(izip(*mesh.getUVs())): the (u, v) pair of every UV point.
getUVs(m) == MFnMesh(m).uv

\* The body of the points property: index -> point, over the component's own
\* indices (vertex, UV) or the vertices of its elements (edge, face).
points(m, k, idx, sp) ==
    LET pts == IF k = "map" THEN getUVs(m) ELSE getPoints(m, sp)
        keys == IF k \in {"vert", "map"} THEN idx
                ELSE UNION {VertsOf(m, k, i) : i \in idx}
    IN  [i \in keys |-> pts[i]]

\* max / min of a coordinate over the points
Highest(S) == CHOOSE x \in S : \A y \in S : y <= x
Lowest(S) == CHOOSE x \in S : \A y \in S : x <= y

\* BoundingBox(pmax, pmin) of the points pts of a component of kind k: the
\* largest and the smallest value of every coordinate.
BoundingBox(pts, k) ==
    [pmax |-> [c \in 1..(IF k = "map" THEN 2 ELSE 3) |->
                 Highest({pts[i][c] : i \in DOMAIN pts})],
     pmin |-> [c \in 1..(IF k = "map" THEN 2 ELSE 3) |->
                 Lowest({pts[i][c] : i \in DOMAIN pts})],
     boxtype |-> IF k = "map" THEN "2D" ELSE "3D"]

\* The body of the bbox property when nothing is cached.
bbox(m, k, idx, sp) == BoundingBox(points(m, k, idx, sp), k)

-----------------------------------------------------------------------------
(* The component: construction and calls                                   *)

\* The most add() calls of one run, and the most indices one add() is given.
MaxAdds == 2
MaxAddLen == 1

\* The last call, and what it returned.
op == call.op
ret == call

Returned(o, v) == [op |-> o, raised |-> FALSE, val |-> v]
Raised(o) == [op |-> o, raised |-> TRUE, val |-> <<>>]

\* A call with its arguments kept beside what it returned.
Called(o, param, v) == [op |-> o, param |-> param, raised |-> FALSE, val |-> v]
Failed(o, param, error) == [op |-> o, param |-> param, raised |-> TRUE, val |-> error]

\* No call made yet.
NoCall == call = Returned("new", "new")

\* History.__init__: an empty history, the cursor at 0.
NoHistory ==
    /\ history_list = <<>>
    /\ current_item = 0

\* No cached object and no collection in play.
NoObject ==
    /\ memo = <<>>
    /\ keyed = <<>>
    /\ lazy = <<>>
    /\ child_memo = <<>>
    /\ version = 0
    /\ inval = <<>>

NoList ==
    /\ slist = <<>>
    /\ lcache = <<>>
    /\ copied = <<>>

\* SingleIndexComponent.__init__: nothing cached.
NoCaches ==
    /\ c_points = <<>>
    /\ c_bbox = <<>>
    /\ c_mesh_shells = <<>>
    /\ c_map_shells = <<>>
    /\ c_normals = <<>>

cacheVars == <<c_points, c_bbox, c_mesh_shells, c_map_shells, c_normals>>

\* AbstractComponent.add(indices)
Add(S) ==
    /\ adds < MaxAdds
    /\ adds' = adds + 1
    /\ indices' = indices \cup S
    /\ call' = Returned("add", "self")
    /\ UNCHANGED <<mesh, kind, space, cacheVars, objVars, listVars, histVars>>

\* component.space = sp
SetSpace(sp) ==
    /\ sp # space
    /\ space' = sp
    /\ call' = Returned("space", sp)
    /\ UNCHANGED <<mesh, kind, indices, adds, cacheVars, objVars, listVars, histVars>>

\* SingleIndexComponent.points
ReadPoints ==
    /\ c_points' = IF space \in DOMAIN c_points THEN c_points
                   ELSE [s \in DOMAIN c_points \cup {space} |->
                           IF s = space THEN points(mesh, kind, indices, space)
                           ELSE c_points[s]]
    /\ call' = Returned("points", c_points'[space])
    /\ UNCHANGED <<mesh, kind, indices, space, adds, c_bbox, c_mesh_shells, c_map_shells,
                   c_normals, objVars, listVars, histVars>>

\* SingleIndexComponent.bbox: reads self.points, so the points are cached too;
\* an MPoint built from no coordinates raises.
ReadBBox ==
    LET pts == IF space \in DOMAIN c_points THEN c_points[space]
               ELSE points(mesh, kind, indices, space)
        box == BoundingBox(pts, kind)
    IN  /\ UNCHANGED <<mesh, kind, indices, space, adds, c_mesh_shells, c_map_shells,
                       c_normals, objVars, listVars, histVars>>
        /\ IF space \in DOMAIN c_bbox
           THEN /\ call' = Returned("bbox", c_bbox[space])
                /\ UNCHANGED <<c_points, c_bbox>>
           ELSE /\ c_points' = [s \in DOMAIN c_points \cup {space} |->
                                  IF s = space THEN pts ELSE c_points[s]]
                /\ IF DOMAIN pts = {}
                   THEN call' = Raised("bbox") /\ UNCHANGED c_bbox
                   ELSE /\ c_bbox' = [s \in DOMAIN c_bbox \cup {space} |->
                                        IF s = space THEN box ELSE c_bbox[s]]
                        /\ call' = Returned("bbox", box)

\* The normals property: MeshVert keeps the vertex normals of the mesh by
\* space; MeshEdge reads self.vert_normals, an attribute it never sets;
\* MeshPolygon computes getPolygonNormal(idx) once, in the provider's default
\* object space, and keeps it while it is non-empty; MeshMap has the base
\* property, which returns the empty dict it was constructed with.
ReadNormals ==
    /\ UNCHANGED <<mesh, kind, indices, space, adds, c_points, c_bbox, c_mesh_shells,
                   c_map_shells, objVars, listVars, histVars>>
    /\ CASE kind = "vert" ->
              /\ c_normals' = IF space \in DOMAIN c_normals THEN c_normals
                              ELSE [s \in DOMAIN c_normals \cup {space} |->
                                      IF s = space THEN getVertexNormals(mesh, space)
                                      ELSE c_normals[s]]
              /\ call' = Returned("normals", c_normals'[space])
         [] kind = "edge" ->
              /\ call' = Raised("normals")
              /\ UNCHANGED c_normals
         [] kind = "face" ->
              /\ c_normals' = IF DOMAIN c_normals # {} THEN c_normals
                              ELSE [i \in indices |-> getPolygonNormal(mesh, i, "object")]
              /\ call' = Returned("normals", c_normals')
         [] OTHER ->
              /\ call' = Returned("normals", c_normals)
              /\ UNCHANGED c_normals

\* SingleIndexComponent.mesh_shells
ReadMeshShells ==
    /\ UNCHANGED <<mesh, kind, indices, space, adds, c_points, c_bbox, c_map_shells,
                   c_normals, objVars, listVars, histVars>>
    /\ IF c_mesh_shells # <<>>
       THEN call' = Returned("mesh_shells", c_mesh_shells) /\ UNCHANGED c_mesh_shells
       ELSE \E r \in {mesh_shells(mesh, kind, indices)} :
                IF r.raised THEN call' = Raised("mesh_shells") /\ UNCHANGED c_mesh_shells
                ELSE c_mesh_shells' = r.shells /\ call' = Returned("mesh_shells", r.shells)

\* SingleIndexComponent.map_shells
ReadMapShells ==
    /\ UNCHANGED <<mesh, kind, indices, space, adds, c_points, c_bbox, c_mesh_shells,
                   c_normals, objVars, listVars, histVars>>
    /\ IF c_map_shells # <<>>
       THEN call' = Returned("map_shells", c_map_shells) /\ UNCHANGED c_map_shells
       ELSE \E r \in {map_shells(mesh, kind, indices)} :
                IF r.raised THEN call' = Raised("map_shells") /\ UNCHANGED c_map_shells
                ELSE c_map_shells' = r.shells /\ call' = Returned("map_shells", r.shells)

\* SingleIndexComponent.get_connected_components(convert=True), read to the end.
Connected ==
    \E r \in {get_connected_components(mesh, kind, indices, TRUE)} :
        /\ call' = IF r.raised THEN Raised("connected") ELSE Returned("connected", r.groups)
        /\ UNCHANGED <<mesh, kind, indices, space, adds, cacheVars, objVars, listVars, histVars>>

\* A component built from a raw (mesh, type, indices) triple, any index set.
InitAlg ==
    /\ mesh \in MeshNames
    /\ kind \in Kinds
    /\ indices \in SUBSET Elements(mesh, kind)
    /\ space = "world"
    /\ NoCaches
    /\ adds = 0
    /\ NoObject
    /\ NoList
    /\ NoCall /\ NoHistory

NextAlg == Connected \/ ReadMeshShells \/ ReadMapShells

\* The topology algorithms applied to every component of every mesh.
SpecAlg == InitAlg /\ [][NextAlg]_vars

\* The meshes a component that is added to and read is bound to.
CompMeshes == {"twoquads"}

\* The indices a component is created from and added to: the first and the
\* last element of its kind.
IndexChoices(m, k) == {0, ElementCount(m, k) - 1}

\* A component created empty or from one index, then added to and read.
InitComp ==
    /\ mesh \in CompMeshes
    /\ kind \in Kinds
    /\ indices \in {S \in SUBSET IndexChoices(mesh, kind) : Cardinality(S) <= 1}
    /\ space = "world"
    /\ NoCaches
    /\ adds = 0
    /\ NoObject
    /\ NoList
    /\ NoCall /\ NoHistory

NextComp ==
    \/ \E S \in SUBSET IndexChoices(mesh, kind) :
          Cardinality(S) <= MaxAddLen /\ Add(S)
    \/ \E sp \in Spaces : SetSpace(sp)
    \/ ReadPoints
    \/ ReadBBox
    \/ ReadNormals
    \/ ReadMeshShells
    \/ ReadMapShells

SpecComp == InitComp /\ [][NextComp]_vars

-----------------------------------------------------------------------------
(* The cache layer: an instance with memoized methods, a keyed cache, lazy *)
(* properties and a collaborator that memoizes on its own                  *)

\* The most times the invalidating method changes the data behind the caches.
MaxVersion == 2

\* The instance's memoized method is called with a space; its keyed cache is
\* read by position; it has one lazy property; its collaborator's memoized
\* method is called with a space.
MemoArgs == {"world", "object"}
KeyedKeys == {0, 1}
LazyNames == {"indexed"}
ChildArgs == {"world"}

\* dict[key] = value
Store(cache, key, value) ==
    [k \in DOMAIN cache \cup {key} |-> IF k = key THEN value ELSE cache[k]]

\* A clear() that leaves the cache as it is.
clear_nothing(cache) == cache

\* memoize's clear() / dict.clear(): the cache emptied.
clear_cache(cache) == <<>>

\* A pop that drops every cached position.
pop_everything(cache, index) == <<>>

\* pop(cache, index) of _cache_mlist_object / dict.pop(index, None)
pop(cache, index) == [k \in DOMAIN cache \ {index} |-> cache[k]]

\* The caches an invalidating call sees.
Caches == [memo |-> memo, keyed |-> keyed, lazy |-> lazy, child_memo |-> child_memo]

\* A method wrapped by memoize, called on the instance with argument a: a hit
\* returns the stored value, a miss computes from the current data and stores.
CallMemoized(a) ==
    /\ memo' = IF a \in DOMAIN memo THEN memo ELSE Store(memo, a, version)
    /\ call' = Returned("memoized", memo'[a])
    /\ UNCHANGED <<keyed, lazy, child_memo, version, inval, compVars, listVars, histVars>>

\* A method wrapped by mlist_object (action CACHE), called with key k.
GetKeyed(k) ==
    /\ keyed' = IF k \in DOMAIN keyed THEN keyed ELSE Store(keyed, k, version)
    /\ call' = Returned("keyed", keyed'[k])
    /\ UNCHANGED <<memo, lazy, child_memo, version, inval, compVars, listVars, histVars>>

\* A cache.property attribute read: computed once, then served from __dict__.
ReadLazy(n) ==
    /\ lazy' = IF n \in DOMAIN lazy THEN lazy ELSE Store(lazy, n, version)
    /\ call' = Returned("lazy", lazy'[n])
    /\ UNCHANGED <<memo, keyed, child_memo, version, inval, compVars, listVars, histVars>>

\* A memoized method of the collaborator the instance holds, called through it.
CallChildMemoized(a) ==
    /\ child_memo' = IF a \in DOMAIN child_memo THEN child_memo
                     ELSE Store(child_memo, a, version)
    /\ call' = Returned("child", child_memo'[a])
    /\ UNCHANGED <<memo, keyed, lazy, version, inval, compVars, listVars, histVars>>

\* A method wrapped by invalidate_instance_cache whose body changes the data:
\* inspect.getmembers reads every attribute (a lazy property not read before is
\* computed and stored), each method holding a _cache is cleared, self._cache
\* is cleared, then the body runs.
Invalidating ==
    /\ version < MaxVersion
    /\ lazy' = [n \in LazyNames |-> IF n \in DOMAIN lazy THEN lazy[n] ELSE version]
    /\ memo' = clear_cache(memo)
    /\ keyed' = clear_cache(keyed)
    /\ inval' = [entry |-> Caches,
                 body |-> [memo |-> memo', keyed |-> keyed', lazy |-> lazy',
                           child_memo |-> child_memo]]
    /\ version' = version + 1
    /\ call' = Returned("invalidating", version')
    /\ UNCHANGED <<child_memo, compVars, listVars, histVars>>

\* A component that is not in play.
NoComponent ==
    /\ mesh = "twoquads"
    /\ kind = "vert"
    /\ indices = {}
    /\ space = "world"
    /\ NoCaches
    /\ adds = 0

\* A fresh instance: nothing cached anywhere.
InitCache == NoComponent /\ NoObject /\ NoList /\ NoCall /\ NoHistory

NextCache ==
    \/ \E a \in MemoArgs : CallMemoized(a)
    \/ \E k \in KeyedKeys : GetKeyed(k)
    \/ \E n \in LazyNames : ReadLazy(n)
    \/ \E a \in ChildArgs : CallChildMemoized(a)
    \/ Invalidating

SpecCache == InitCache /\ [][NextCache]_vars

\* How a memoized method is handed an unhashable value: as a positional
\* argument or as the value of a keyword.
UnhashableForms == {"args", "kw"}

\* A method wrapped by memoize called with an unhashable value: given by
\* position it is part of the key tuple, the lookup cache[key] raises the
\* TypeError the wrapper catches, and the method is called and nothing stored;
\* given by keyword, frozenset(kw.items()) raises TypeError while the key is
\* built, before the try.
CallMemoizedUnhashable(form) ==
    /\ call' = IF form = "kw" THEN Failed("memoized_unhashable", [form |-> form], "TypeError")
               ELSE Called("memoized_unhashable", [form |-> form], version)
    /\ UNCHANGED <<memo, keyed, lazy, child_memo, version, inval, compVars, listVars, histVars>>

\* A method wrapped by mlist_object (action CACHE) called with a slice as key:
\* cache[key] raises the TypeError the wrapper catches, the method is called
\* and nothing is stored.
GetKeyedUnhashable ==
    /\ call' = Called("keyed_unhashable", [form |-> "args"], version)
    /\ UNCHANGED <<memo, keyed, lazy, child_memo, version, inval, compVars, listVars, histVars>>

NextLookup ==
    \/ NextCache
    \/ \E form \in UnhashableForms : CallMemoizedUnhashable(form)
    \/ GetKeyedUnhashable

\* The cached calls with hashable and with unhashable keys.
SpecLookup == InitCache /\ [][NextLookup]_vars

-----------------------------------------------------------------------------
(* The component collection: ComponentList over an MSelectionList          *)

\* The most positions a collection grows to, and the most entries of a
\* collection it is extended with.
MaxLen == 2
MaxOther == 1

\* The (dagpath, component) pairs in play: two vertex components of one mesh
\* that merge to a third, a face component of the same mesh and a vertex
\* component of another mesh.
Entries ==
    {[mesh |-> "pCube1", kind |-> "vert", indices |-> {0}],
     [mesh |-> "pCube1", kind |-> "vert", indices |-> {1}],
     [mesh |-> "pCube1", kind |-> "face", indices |-> {0}],
     [mesh |-> "pSphere1", kind |-> "vert", indices |-> {0}]}

SameObject(e, f) == e.mesh = f.mesh /\ e.kind = f.kind

\* The positions of list L that hold the object of entry e.
Matches(L, e) == {q \in DOMAIN L : SameObject(L[q], e)}

\* MSelectionList.add(item, mergeWithExisting): the lists the call can leave.
\* Merging unions the indices into an item of the same object; which one,
\* when several positions hold the object, is the provider's choice.
sl_add(L, e, mergeWithExisting) ==
    IF mergeWithExisting /\ Matches(L, e) # {}
    THEN {[L EXCEPT ![q].indices = @ \cup e.indices] : q \in Matches(L, e)}
    ELSE {Append(L, e)}

\* MSelectionList.merge(other, kMergeNormal): every item of other merged in.
RECURSIVE sl_merge(_, _)
sl_merge(L, other) ==
    IF other = <<>> THEN {L}
    ELSE UNION {sl_merge(L1, Tail(other)) : L1 \in sl_add(L, Head(other), TRUE)}

\* MSelectionList.remove(index): the later items move down one position.
sl_remove(L, i) == [q \in 1..(Len(L) - 1) |-> IF q < i + 1 THEN L[q] ELSE L[q + 1]]

\* MSelectionList.replace(index, item)
sl_replace(L, i, e) == [L EXCEPT ![i + 1] = e]

\* An extend that adds every entry at the end, as append does.
extend_by_append(L, other) == {L \o other}

\* ComponentList.extend(other) of selectionlist: the lists it can leave.
extend_list(L, other) == sl_merge(L, other)

\* An update that adds every entry at the end, as append does.
update_by_append(L, other) == {L \o other}

\* ComponentList.update(other) of listadapters: the lists it can leave.
update_list(L, other) == sl_merge(L, other)

\* The position a key names: -1 is the last position.
Position(L, key) == IF key = -1 THEN Len(L) - 1 ELSE key

\* The keys a caller indexes a list of length n with.
KeysOf(L) == (0..(Len(L) - 1)) \cup {-1}

\* ComponentList._process_cache(key): the cache after the lookup.
process_cache(L, cache, key) ==
    IF key \in DOMAIN cache THEN cache ELSE Store(cache, key, L[key + 1])

\* ComponentList.__getitem__(key), key an integer
GetItem(key) ==
    /\ UNCHANGED <<slist, copied, compVars, objVars, histVars>>
    /\ IF slist = <<>>
       THEN call' = Raised("getitem") /\ UNCHANGED lcache
       ELSE /\ lcache' = process_cache(slist, lcache, Position(slist, key))
            /\ call' = Returned("getitem", lcache'[Position(slist, key)])

\* ComponentList.append(mobj): added without merging.
ListAppend(e) ==
    /\ Len(slist) < MaxLen
    /\ slist' \in sl_add(slist, e, FALSE)
    /\ call' = Returned("append", "None")
    /\ UNCHANGED <<lcache, copied, compVars, objVars, histVars>>

\* ComponentList.extend(other) of selectionlist: the cache emptied, then the
\* entries of other merged in.
Extend(other) ==
    /\ lcache' = clear_cache(lcache)
    /\ slist' \in extend_list(slist, other)
    /\ Len(slist') <= MaxLen
    /\ call' = Returned("extend", "None")
    /\ UNCHANGED <<copied, compVars, objVars, histVars>>

\* ComponentList.update(other) of listadapters, wrapped by
\* invalidate_instance_cache: self._cache cleared, then the body merges.
Update(other) ==
    /\ lcache' = clear_cache(lcache)
    /\ slist' \in update_list(slist, other)
    /\ Len(slist') <= MaxLen
    /\ call' = Returned("update", "None")
    /\ UNCHANGED <<copied, compVars, objVars, histVars>>

\* ComponentList.replace(index, other). Given a (dagpath, component) pair the
\* cached position is dropped and the item replaced. Given a component object
\* the provider rejects the object: with an AttributeError the object is
\* cached for the position and its node replaces the item, with any other
\* error the call ends after the cached position was dropped.
Replace(i, e, given) ==
    /\ i \in 0..(Len(slist) - 1)
    /\ UNCHANGED <<copied, compVars, objVars, histVars>>
    /\ \/ /\ given = "node"
          /\ lcache' = pop(lcache, i)
          /\ slist' = sl_replace(slist, i, e)
          /\ call' = Returned("replace", "None")
       \/ /\ given = "component"
          /\ lcache' = Store(pop(lcache, i), i, e)
          /\ slist' = sl_replace(slist, i, e)
          /\ call' = Returned("replace", "None")
       \/ /\ given = "component"
          /\ lcache' = pop(lcache, i)
          /\ slist' = slist
          /\ call' = Raised("replace")

\* AbstractSelectionList.remove(index)
Remove(i) ==
    /\ i \in 0..(Len(slist) - 1)
    /\ lcache' = pop(lcache, i)
    /\ slist' = sl_remove(slist, i)
    /\ call' = Returned("remove", "None")
    /\ UNCHANGED <<copied, compVars, objVars, histVars>>

\* AbstractSelectionList.pop(index): value = self[index], then remove.
Pop(key) ==
    /\ UNCHANGED <<copied, compVars, objVars, histVars>>
    /\ IF slist = <<>>
       THEN call' = Raised("pop") /\ UNCHANGED <<slist, lcache>>
       ELSE /\ call' = Returned("pop", process_cache(slist, lcache, Position(slist, key))
                                  [Position(slist, key)])
            /\ lcache' = pop(process_cache(slist, lcache, Position(slist, key)),
                             Position(slist, key))
            /\ slist' = sl_remove(slist, Position(slist, key))

\* No two positions hold the same object.
Merged(L) == \A q, r \in DOMAIN L : q # r => ~SameObject(L[q], L[r])

\* ComponentList(elements, merge=True): every element merged into the list.
InitList ==
    /\ slist \in {L \in UNION {[1..n -> Entries] : n \in 0..MaxLen} : Merged(L)}
    /\ lcache = <<>>
    /\ copied = <<>>
    /\ NoComponent
    /\ NoObject
    /\ NoCall /\ NoHistory

NextList ==
    \/ \E key \in KeysOf(slist) : GetItem(key)
    \/ \E e \in Entries : ListAppend(e)
    \/ \E other \in UNION {[1..n -> Entries] : n \in 1..MaxOther} : Extend(other)
    \/ \E other \in UNION {[1..n -> Entries] : n \in 1..MaxOther} : Update(other)
    \/ \E i \in 0..(MaxLen - 1), e \in Entries, given \in {"node", "component"} :
          Replace(i, e, given)
    \/ \E i \in 0..(MaxLen - 1) : Remove(i)
    \/ \E key \in KeysOf(slist) : Pop(key)

SpecList == InitList /\ [][NextList]_vars

-----------------------------------------------------------------------------
(* Building a collection: from_strings, the constructor and from_ls        *)

\* The most entries a collection is built from.
MaxElements == 3

\* A loop that merges every element whatever it is told.
RECURSIVE add_each_merging(_, _, _)
add_each_merging(L, elements, merge) ==
    IF elements = <<>> THEN {L}
    ELSE UNION {add_each_merging(L1, Tail(elements), merge) :
                  L1 \in sl_add(L, Head(elements), TRUE)}

\* The lists a loop of MSelectionList.add(each, merge) over elements can leave.
RECURSIVE add_each(_, _, _)
add_each(L, elements, merge) ==
    IF elements = <<>> THEN {L}
    ELSE UNION {add_each(L1, Tail(elements), merge) : L1 \in sl_add(L, Head(elements), merge)}

\* ComponentList.from_strings(string_elements, merge) of listadapters: each
\* string converted to its component and added.
from_strings(L, elements, merge) == add_each(L, elements, merge)

\* need_ordered_selection_set(kw)
OrderedKeywords == {"fl", "flatten", "os", "orderedSelection"}
need_ordered_selection_set(kw) == \E i \in OrderedKeywords : i \in kw

\* The keywords from_ls is called with, beside merge.
LsKeywords == {"sl", "fl", "flatten", "os", "orderedSelection"}

\* The inputs a collection is built from: what the caller passes, or what
\* cmds.ls answers.
ElementLists == UNION {[1..n -> Entries] : n \in 0..MaxElements}

\* ComponentList.from_strings(string_elements, merge) of listadapters
FromStrings(elements, merge) ==
    /\ op = "new"
    /\ slist' \in from_strings(<<>>, elements, merge)
    /\ call' = Called("from_strings", [elements |-> elements, merge |-> merge], "list")
    /\ UNCHANGED <<lcache, copied, compVars, objVars, histVars>>

\* ComponentList(elements, merge) of selectionlist, elements strings or
\* (dagpath, component) pairs: the first element is read to tell which, so
\* no element raises StopIteration.
Construct(elements, merge) ==
    /\ op = "new"
    /\ UNCHANGED <<lcache, copied, compVars, objVars, histVars>>
    /\ IF elements = <<>>
       THEN /\ call' = Failed("construct", [elements |-> elements, merge |-> merge],
                              "StopIteration")
            /\ UNCHANGED slist
       ELSE /\ slist' \in add_each(<<>>, elements, merge)
            /\ call' = Called("construct", [elements |-> elements, merge |-> merge], "list")

\* from_ls(*args, **kw). In listadapters the keywords decide; in selectionlist
\* need_ordered_selection_set is called without its argument, which raises
\* TypeError before anything else is done. merge is "absent" or the value of
\* the merge keyword; tracking is what cmds.selectPref answers; elements is
\* what cmds.ls answers.
FromLs(module, kw, merge, tracking, elements) ==
    /\ op = "new"
    /\ UNCHANGED <<lcache, copied, compVars, objVars, histVars>>
    /\ \E param \in {[module |-> module, kw |-> kw, merge |-> merge,
                      tracking |-> tracking, elements |-> elements]} :
          IF module = "selectionlist"
          THEN call' = Failed("from_ls", param, "TypeError") /\ UNCHANGED slist
          ELSE IF need_ordered_selection_set(kw) /\ ~tracking
               THEN /\ call' = Failed("from_ls", param, "OrderedSelectionsNotSet")
                    /\ UNCHANGED slist
               ELSE /\ slist' \in from_strings(
                                     <<>>, elements,
                                     IF merge # "absent" THEN merge = "True"
                                     ELSE ~need_ordered_selection_set(kw))
                    /\ call' = Called("from_ls", param, "list")

\* No collection built yet.
InitBuild == NoComponent /\ NoObject /\ NoList /\ NoCall /\ NoHistory

NextBuild ==
    \/ \E elements \in ElementLists, merge \in BOOLEAN : FromStrings(elements, merge)
    \/ \E elements \in ElementLists, merge \in BOOLEAN : Construct(elements, merge)
    \/ \E module \in {"listadapters", "selectionlist"}, kw \in SUBSET LsKeywords,
          merge \in {"absent", "True", "False"}, tracking \in BOOLEAN,
          elements \in {el \in ElementLists : Len(el) < MaxElements} :
             FromLs(module, kw, merge, tracking, elements)

SpecBuild == InitBuild /\ [][NextBuild]_vars

-----------------------------------------------------------------------------
(* toggle                                                                  *)

\* The meshes of the components that are toggled.
ToggleMeshes == {"tetra"}

\* toggle() without an argument, and the components toggle is given: of the
\* receiver's mesh and kind with any index set, or bound to another mesh.
NoOther == [given |-> FALSE, mesh |-> "", indices |-> {}]
Others(m, k) ==
    {NoOther}
      \cup {[given |-> TRUE, mesh |-> m, indices |-> S] : S \in SUBSET Elements(m, k)}
      \cup {[given |-> TRUE, mesh |-> "pSphere1", indices |-> S] : S \in {{}, {0}}}

\* A get_complete that hands back a component without elements.
get_complete_empty(m, k) == {}

\* SingleIndexComponent.get_complete(): setCompleteData(count)
get_complete(m, k) == Elements(m, k)

\* MSelectionList.toggle(dagpath, component) on a list that holds item: the
\* elements of component on the list are taken off it, the others put on it.
sl_toggle(item, component) == (item \ component) \cup (component \ item)

\* A toggle that goes on with the component of the other mesh.
toggle_any_mesh(m, k, idx, other) ==
    [raised |-> sl_toggle(idx, IF other.given THEN other.indices ELSE get_complete(m, k)) = {},
     none |-> FALSE, logged |-> FALSE,
     indices |-> sl_toggle(idx, IF other.given THEN other.indices ELSE get_complete(m, k))]

\* SingleIndexComponent.toggle(other): None after a logged warning for a
\* component of another mesh; else component 0 of the toggled list, which
\* raises when the toggle took the receiver's last element off the list.
toggle(m, k, idx, other) ==
    IF other.given /\ other.mesh # m
    THEN [raised |-> FALSE, none |-> TRUE, logged |-> TRUE, indices |-> {}]
    ELSE CHOOSE r \in
            {[raised |-> idx # {} /\ toggled = {}, none |-> FALSE, logged |-> FALSE,
              indices |-> toggled] :
                toggled \in {sl_toggle(idx, IF other.given THEN other.indices
                                            ELSE get_complete(m, k))}} : TRUE

\* component.toggle(other)
Toggle(other) ==
    /\ op = "new"
    /\ \E r \in {toggle(mesh, kind, indices, other)} :
          call' = IF r.raised THEN Failed("toggle", [other |-> other], "IndexError")
                  ELSE Called("toggle", [other |-> other],
                              [none |-> r.none, logged |-> r.logged, indices |-> r.indices])
    /\ UNCHANGED <<compVars, objVars, listVars, histVars>>

\* component.toggle(other).toggle(other): the component the first toggle
\* returned toggled against the same other.
ToggleAgain ==
    /\ op = "toggle"
    /\ ~ret.raised
    /\ ~ret.val.none
    /\ \E r \in {toggle(mesh, kind, ret.val.indices, ret.param.other)} :
          call' = IF r.raised THEN Failed("toggle_again", ret.param, "IndexError")
                  ELSE Called("toggle_again", ret.param,
                              [none |-> r.none, logged |-> r.logged, indices |-> r.indices])
    /\ UNCHANGED <<compVars, objVars, listVars, histVars>>

\* Any component of a mesh, nothing called on it yet.
InitToggle ==
    /\ mesh \in ToggleMeshes
    /\ kind \in Kinds
    /\ indices \in SUBSET Elements(mesh, kind)
    /\ space = "world"
    /\ NoCaches
    /\ adds = 0
    /\ NoObject
    /\ NoList
    /\ NoCall /\ NoHistory

NextToggle ==
    \/ \E other \in Others(mesh, kind) : Toggle(other)
    \/ ToggleAgain

SpecToggle == InitToggle /\ [][NextToggle]_vars

-----------------------------------------------------------------------------
(* Conversions and border queries                                          *)

\* The meshes of the components that are converted and queried.
ConvertMeshes == MeshNames \cup {"triforce"}

\* The keyword flags a conversion is called with.
ConvertFlags == {{}, {"internal"}, {"border"}}

\* Component.is_border(index) of comp.py on mesh record M: the Face branch asks
\* about the first index of the component itself, not about the argument; the
\* Edge branch tests for kEdgeComponent, which no mesh component has, so an
\* edge goes through the final branch as a vertex does.
comp_is_border_in(M, k, idx, index) ==
    IF k = "face"
    THEN [raised |-> idx = {},
          border |-> idx # {} /\ onBoundaryIn(M, CHOOSE i \in idx : \A j \in idx : i <= j)]
    ELSE [raised |-> FALSE,
          border |-> \E i \in ConversionIn(M, k, {index}, "edge", {}) : edgeBorderIn(M, i)]

\* component.convert_to(to, **kw)
ConvertTo(to, kw) ==
    /\ op = "new"
    /\ \E r \in {convert_to(mesh, kind, indices, to, kw)} :
          call' = IF r.raised
                  THEN Failed("convert_to", [to |-> to, kw |-> kw], "IndexError")
                  ELSE Called("convert_to", [to |-> to, kw |-> kw], [indices |-> r.indices])
    /\ UNCHANGED <<compVars, objVars, listVars, histVars>>

\* component.to_edge(**kw)
ToEdge(kw) ==
    /\ op = "new"
    /\ \E r \in {to_edge(mesh, kind, indices, kw)} :
          call' = IF r.raised
                  THEN Failed("to_edge", [to |-> "edge", kw |-> kw], "IndexError")
                  ELSE Called("to_edge", [to |-> "edge", kw |-> kw], [indices |-> r.indices])
    /\ UNCHANGED <<compVars, objVars, listVars, histVars>>

\* component.is_border(index), of components.py or of comp.py
IsBorder(module, index) ==
    /\ op = "new"
    /\ \E r \in {IF module = "components"
                 THEN [raised |-> FALSE, border |-> is_border(mesh, kind, index)]
                 ELSE comp_is_border_in(MFnMesh(mesh), kind, indices, index)} :
          call' = IF r.raised
                  THEN Failed("is_border", [module |-> module, index |-> index], "IndexError")
                  ELSE Called("is_border", [module |-> module, index |-> index],
                              [border |-> r.border])
    /\ UNCHANGED <<compVars, objVars, listVars, histVars>>

\* Any component of a mesh, nothing called on it yet.
InitConvert ==
    /\ mesh \in ConvertMeshes
    /\ kind \in Kinds
    /\ indices \in SUBSET Elements(mesh, kind)
    /\ space = "world"
    /\ NoCaches
    /\ adds = 0
    /\ NoObject
    /\ NoList
    /\ NoCall /\ NoHistory

NextConvert ==
    \/ \E to \in Kinds, kw \in ConvertFlags : ConvertTo(to, kw)
    \/ \E kw \in ConvertFlags : ToEdge(kw)
    \/ \E module \in {"components", "comp"}, index \in Elements(mesh, kind) :
          IsBorder(module, index)

SpecConvert == InitConvert /\ [][NextConvert]_vars

-----------------------------------------------------------------------------
(* Edge loops: outer and inner edges, vertex order                         *)

\* The meshes of the edge components whose outer edges are asked for.
LoopMeshes == {"twoquads", "tetra", "strip", "triforce"}

\* The end vertices of the edges of idx.
edge_verts(m, idx) == UNION {Range(getEdgeVertices(m, e)) : e \in idx}

\* collections.Counter updated with every end vertex of every edge of idx.
vert_count(m, idx) ==
    [v \in edge_verts(m, idx) |->
        Cardinality({e \in idx : v \in Range(getEdgeVertices(m, e))})]

\* The two entries with the highest counts instead of the lowest.
most_common_two(count) ==
    IF DOMAIN count = {} THEN {<<>>}
    ELSE {p \in (DOMAIN count) \X (DOMAIN count) :
            /\ p[1] # p[2]
            /\ \A v \in DOMAIN count : count[p[1]] >= count[v]
            /\ \A v \in DOMAIN count \ {p[1]} : count[p[2]] >= count[v]}

\* The lists most_common()[-2:] can be: the last two entries of the entries
\* sorted by falling count, entries of equal count in the order the counter's
\* dict happens to yield them.
least_common_two(count) ==
    IF DOMAIN count = {} THEN {<<>>}
    ELSE {p \in (DOMAIN count) \X (DOMAIN count) :
            /\ p[1] # p[2]
            /\ \A v \in DOMAIN count : count[p[2]] <= count[v]
            /\ \A v \in DOMAIN count \ {p[2]} : count[p[1]] <= count[v]}

\* [e for e in edges if outer_vert in e].pop(): the last edge of the component
\* that holds outer_vert.
outer_edge(m, idx, outer_vert) ==
    CHOOSE e \in idx :
        /\ outer_vert \in Range(getEdgeVertices(m, e))
        /\ \A f \in idx : outer_vert \in Range(getEdgeVertices(m, f)) => f <= e

\* get_outer_edges_in_loop(connected) with most_common()[-2:] = ends: a vertex
\* component of the outer vertex and its neighbour on the outer edge for each
\* of ends, and a vertex component of the vertices that are left.
get_outer_edges_in_loop(m, idx, ends) ==
    [outer |-> [n \in DOMAIN ends |-> Range(getEdgeVertices(m, outer_edge(m, idx, ends[n])))],
     inner |-> edge_verts(m, idx) \ Range(ends)]

\* next_ = None
None == -1

\* list.pop(idx) leaves the list without its element at 0-based position idx.
pop_at(list, idx) ==
    [n \in 1..(Len(list) - 1) |-> IF n <= idx THEN list[n] ELSE list[n + 1]]

\* get_vert_order_on_edge_row(indices), from the top of its while loop: the
\* pair at idx is popped (IndexError past the end of the list), next_ is
\* appended, and the first pair left that holds next_ sets idx and next_; with
\* no such pair idx and next_ stay as they are.
RECURSIVE vert_order_loop(_, _, _, _)
vert_order_loop(edge_vertices, idx, next_, sorted_) ==
    IF edge_vertices = <<>> THEN [raised |-> FALSE, order |-> sorted_]
    ELSE IF idx >= Len(edge_vertices) THEN [raised |-> TRUE, order |-> sorted_]
    ELSE LET left == pop_at(edge_vertices, idx)
             nxt == IF next_ = None THEN edge_vertices[idx + 1][2] ELSE next_
             hits == {n \in DOMAIN left : nxt \in Range(left[n])}
             first == CHOOSE n \in hits : \A h \in hits : n <= h
         IN  IF hits = {}
             THEN vert_order_loop(left, idx, nxt, Append(sorted_, nxt))
             ELSE vert_order_loop(left, first - 1,
                                  IF nxt = left[first][1] THEN left[first][2]
                                  ELSE left[first][1],
                                  Append(sorted_, nxt))

get_vert_order_on_edge_row(pairs) == vert_order_loop(pairs, 0, None, <<>>)

\* The longest list of vertex pairs and the highest vertex in a pair.
MaxPairs == 3
MaxVert == 3

\* Lists of vertex pairs, in any order and orientation.
VertexPairs == {p \in (0..MaxVert) \X (0..MaxVert) : p[1] # p[2]}
PairLists == UNION {[1..n -> VertexPairs] : n \in 0..MaxPairs}

\* get_outer_edges_in_loop(component)
GetOuterEdges ==
    /\ op = "new"
    /\ \E ends \in least_common_two(vert_count(mesh, indices)) :
          call' = Called("get_outer_edges_in_loop", [ends |-> ends],
                         get_outer_edges_in_loop(mesh, indices, ends))
    /\ UNCHANGED <<compVars, objVars, listVars, histVars>>

\* get_vert_order_on_edge_row(pairs)
GetVertOrder(pairs) ==
    /\ op = "new"
    /\ \E r \in {get_vert_order_on_edge_row(pairs)} :
          call' = IF r.raised THEN Failed("get_vert_order_on_edge_row", [pairs |-> pairs],
                                          "IndexError")
                  ELSE Called("get_vert_order_on_edge_row", [pairs |-> pairs],
                              [order |-> r.order])
    /\ UNCHANGED <<compVars, objVars, listVars, histVars>>

\* Any edge component of a mesh, nothing called on it yet.
InitLoop ==
    /\ mesh \in LoopMeshes
    /\ kind = "edge"
    /\ indices \in SUBSET Elements(mesh, kind)
    /\ space = "world"
    /\ NoCaches
    /\ adds = 0
    /\ NoObject
    /\ NoList
    /\ NoCall /\ NoHistory

NextLoop == GetOuterEdges

SpecLoop == InitLoop /\ [][NextLoop]_vars

InitOrder == NoComponent /\ NoObject /\ NoList /\ NoCall /\ NoHistory

NextOrder == \E pairs \in PairLists : GetVertOrder(pairs)

SpecOrder == InitOrder /\ [][NextOrder]_vars

-----------------------------------------------------------------------------
(* Slicing a collection                                                    *)

\* The positions xrange(*slice(start, stop).indices(len(L))) runs over.
slice_indices(L, start, stop) ==
    {i \in 0..(Len(L) - 1) : start <= i /\ i < stop}

\* [getComponent(i) for i in xrange(...)]: the entries at the positions idx,
\* in order.
entries_at(L, idx) ==
    IF idx = {} THEN <<>>
    ELSE CHOOSE sub \in [1..Cardinality(idx) -> Range(L)] :
            \E first \in idx :
                /\ \A i \in idx : first <= i
                /\ \A n \in 1..Cardinality(idx) : sub[n] = L[first + n]

\* collection[start:stop]. selectionlist hands the entries to the constructor,
\* which reads the first of them (StopIteration when there is none) and adds
\* each with merge=True; listadapters adds each to a new MSelectionList, where
\* add merges by default, and hands that list to the constructor.
slice_list(module, L, start, stop) ==
    IF module = "selectionlist" /\ slice_indices(L, start, stop) = {}
    THEN [raised |-> TRUE, lists |-> {}]
    ELSE [raised |-> FALSE,
          lists |-> add_each(<<>>, entries_at(L, slice_indices(L, start, stop)), TRUE)]

\* collection[start:stop]
Slice(module, start, stop) ==
    /\ op = "new"
    /\ \E r \in {slice_list(module, slist, start, stop)} :
          IF r.raised
          THEN call' = Failed("slice", [module |-> module, start |-> start, stop |-> stop],
                              "StopIteration")
          ELSE \E L \in r.lists :
                  call' = Called("slice", [module |-> module, start |-> start, stop |-> stop],
                                 [list |-> L])
    /\ UNCHANGED <<compVars, objVars, listVars, histVars>>

\* A collection built with or without merging, nothing called on it yet.
InitSlice ==
    /\ slist \in ElementLists
    /\ lcache = <<>>
    /\ copied = <<>>
    /\ NoComponent
    /\ NoObject
    /\ NoCall /\ NoHistory

NextSlice ==
    \E module \in {"selectionlist", "listadapters"}, start \in 0..MaxElements,
       stop \in 0..MaxElements : Slice(module, start, stop)

SpecSlice == InitSlice /\ [][NextSlice]_vars

-----------------------------------------------------------------------------
(* Comparing collections                                                   *)

\* MSelectionList.hasItem(item): the list holds the object of the item with
\* every element of the item's component.
hasItem(L, e) == \E q \in Matches(L, e) : e.indices \subseteq L[q].indices

\* MSelectionList.hasItemPartly(dagpath, component): the list holds the object
\* with at least one element of the component.
hasItemPartly(L, e) == \E q \in Matches(L, e) : e.indices \cap L[q].indices # {}

\* collection == other. selectionlist asks self._slist.hasItem for every entry
\* of other; listadapters asks self.__contains__ for self._getitem_method(obj),
\* its own entry at every position of other.
list_eq(module, L, other) ==
    /\ Len(L) = Len(other)
    /\ \A x \in DOMAIN other :
          IF module = "selectionlist" THEN hasItem(L, other[x])
          ELSE hasItemPartly(L, L[x])

\* collection == other
Equals(module, other) ==
    /\ op = "new"
    /\ call' = Called("eq", [module |-> module, other |-> other],
                      [equal |-> list_eq(module, slist, other)])
    /\ UNCHANGED <<compVars, objVars, listVars, histVars>>

NextEq ==
    \E module \in {"selectionlist", "listadapters"}, other \in ElementLists :
        Equals(module, other)

\* Every collection compared with every collection.
SpecEq == InitSlice /\ [][NextEq]_vars

-----------------------------------------------------------------------------
(* is_complete and get_complete                                            *)

\* is_complete() of components.py compares the element count of the kind with
\* the number of indices held; is_complete() of comp.py returns
\* self._indexed.isComplete, which only setCompleteData sets.
is_complete_of(module, m, k, idx, isComplete) ==
    IF module = "components" THEN is_complete(m, k, idx) ELSE isComplete

\* component.is_complete() on a component built by create() and add()
IsComplete(module) ==
    /\ op = "new"
    /\ call' = Called("is_complete", [module |-> module, of |-> "receiver"],
                      [complete |-> is_complete_of(module, mesh, kind, indices, FALSE)])
    /\ UNCHANGED <<compVars, objVars, listVars, histVars>>

\* component.get_complete(): a new component given setCompleteData(count)
GetComplete ==
    /\ op = "new"
    /\ call' = Called("get_complete", [module |-> "components", of |-> "receiver"],
                      [indices |-> get_complete(mesh, kind), isComplete |-> TRUE])
    /\ UNCHANGED <<compVars, objVars, listVars, histVars>>

\* component.get_complete().is_complete()
IsCompleteOfComplete(module) ==
    /\ op = "get_complete"
    /\ ret.param.of = "receiver"
    /\ call' = Called("is_complete", [module |-> module, of |-> "complete"],
                      [complete |-> is_complete_of(module, mesh, kind, ret.val.indices,
                                                   ret.val.isComplete)])
    /\ UNCHANGED <<compVars, objVars, listVars, histVars>>

\* component.get_complete().get_complete()
GetCompleteAgain ==
    /\ op = "get_complete"
    /\ ret.param.of = "receiver"
    /\ call' = Called("get_complete", [module |-> "components", of |-> "complete"],
                      [indices |-> get_complete(mesh, kind), isComplete |-> TRUE])
    /\ UNCHANGED <<compVars, objVars, listVars, histVars>>

NextComplete ==
    \/ \E module \in {"components", "comp"} : IsComplete(module)
    \/ GetComplete
    \/ \E module \in {"components", "comp"} : IsCompleteOfComplete(module)
    \/ GetCompleteAgain

\* Any component of any mesh asked whether it is complete and for its
\* complete component.
SpecComplete == InitAlg /\ [][NextComplete]_vars

-----------------------------------------------------------------------------
(* Copying a collection: __copy__ of both list modules                     *)

\* A copy of the collection was made.
HasCopy == copied # <<>>

\* ComponentList.__copy__(): a new collection of the same class built from a
\* copy of the provider list, its _cache bound to the _cache of the receiver,
\* so both collections read and write one dict. The constructor of
\* selectionlist asks the provider for item 0 and fails on an empty list.
Copy(module) ==
    /\ ~HasCopy
    /\ UNCHANGED <<slist, lcache, compVars, objVars, histVars>>
    /\ IF module = "selectionlist" /\ slist = <<>>
       THEN call' = Failed("copy", [module |-> module], "IndexError") /\ UNCHANGED copied
       ELSE /\ copied' = <<slist>>
            /\ call' = Called("copy", [module |-> module], [list |-> slist])

\* copy[key], key an integer: looked up in the shared cache.
CopyGetItem(key) ==
    /\ HasCopy
    /\ UNCHANGED <<slist, copied, compVars, objVars, histVars>>
    /\ IF copied[1] = <<>>
       THEN call' = Raised("copy.getitem") /\ UNCHANGED lcache
       ELSE /\ lcache' = process_cache(copied[1], lcache, Position(copied[1], key))
            /\ call' = Returned("copy.getitem", lcache'[Position(copied[1], key)])

\* copy.remove(index): the position dropped from the shared cache.
CopyRemove(i) ==
    /\ HasCopy
    /\ i \in 0..(Len(copied[1]) - 1)
    /\ lcache' = pop(lcache, i)
    /\ copied' = <<sl_remove(copied[1], i)>>
    /\ call' = Returned("copy.remove", "None")
    /\ UNCHANGED <<slist, compVars, objVars, histVars>>

\* copy.pop(index): value = copy[index], then copy.remove(index).
CopyPop(key) ==
    /\ HasCopy
    /\ UNCHANGED <<slist, compVars, objVars, histVars>>
    /\ IF copied[1] = <<>>
       THEN call' = Raised("copy.pop") /\ UNCHANGED <<copied, lcache>>
       ELSE \E c \in {process_cache(copied[1], lcache, Position(copied[1], key))} :
                /\ call' = Returned("copy.pop", c[Position(copied[1], key)])
                /\ lcache' = pop(c, Position(copied[1], key))
                /\ copied' = <<sl_remove(copied[1], Position(copied[1], key))>>

\* copy.replace(index, other): as ComponentList.replace, on the shared cache.
CopyReplace(i, e, given) ==
    /\ HasCopy
    /\ i \in 0..(Len(copied[1]) - 1)
    /\ UNCHANGED <<slist, compVars, objVars, histVars>>
    /\ \/ /\ given = "node"
          /\ lcache' = pop(lcache, i)
          /\ copied' = <<sl_replace(copied[1], i, e)>>
          /\ call' = Returned("copy.replace", "None")
       \/ /\ given = "component"
          /\ lcache' = Store(pop(lcache, i), i, e)
          /\ copied' = <<sl_replace(copied[1], i, e)>>
          /\ call' = Returned("copy.replace", "None")
       \/ /\ given = "component"
          /\ lcache' = pop(lcache, i)
          /\ copied' = copied
          /\ call' = Raised("copy.replace")

\* copy.update(other): the shared cache cleared, then the body merges.
CopyUpdate(other) ==
    /\ HasCopy
    /\ lcache' = clear_cache(lcache)
    /\ \E L \in update_list(copied[1], other) :
          /\ Len(L) <= MaxLen
          /\ copied' = <<L>>
    /\ call' = Returned("copy.update", "None")
    /\ UNCHANGED <<slist, compVars, objVars, histVars>>

\* The calls made on the copy and the calls made on the original.
CopyOps == {"copy.getitem", "copy.remove", "copy.pop", "copy.replace", "copy.update"}
OriginalOps == {"getitem", "remove", "pop", "replace", "update"}

\* What collection[k] returns at every position k of a collection with the
\* entries L and the cache given.
Returns(L, cache) ==
    [k \in 0..(Len(L) - 1) |-> process_cache(L, cache, k)[k]]

\* The keys a caller indexes the copy with.
CopyKeys == IF HasCopy THEN KeysOf(copied[1]) ELSE {}

NextCopy ==
    \/ \E module \in {"selectionlist", "listadapters"} : Copy(module)
    \/ \E key \in KeysOf(slist) : GetItem(key)
    \/ \E i \in 0..(MaxLen - 1) : Remove(i)
    \/ \E key \in KeysOf(slist) : Pop(key)
    \/ \E i \in 0..(MaxLen - 1), e \in Entries, given \in {"node", "component"} :
          Replace(i, e, given)
    \/ \E other \in UNION {[1..n -> Entries] : n \in 1..MaxOther} : Update(other)
    \/ \E key \in CopyKeys : CopyGetItem(key)
    \/ \E i \in 0..(MaxLen - 1) : CopyRemove(i)
    \/ \E key \in CopyKeys : CopyPop(key)
    \/ \E i \in 0..(MaxLen - 1), e \in Entries, given \in {"node", "component"} :
          CopyReplace(i, e, given)
    \/ \E other \in UNION {[1..n -> Entries] : n \in 1..MaxOther} : CopyUpdate(other)

SpecCopy == InitList /\ [][NextCopy]_vars

-----------------------------------------------------------------------------
(* The jump history: History of utils/history.py, HistoryList of utils.py  *)

LIST_LIMIT == 20
LIST_TRIMMED_SIZE == 15

\* The furthest below zero a caller drives the cursor.
MaxBack == 23

\* The selections pushed: the empty selection and two that differ.
Selections == {{}, {"a"}, {"b"}}

\* The elements History.push is given.
Elements1 == {"a"}

\* del history[i:] with i a Python index, negative counted from the end.
del_from(history, i) ==
    LET n == Len(history)
        from == IF i < 0 THEN (IF n + i < 0 THEN 0 ELSE n + i)
                ELSE (IF i > n THEN n ELSE i)
    IN  SubSeq(history, 1, from)

\* trim_selections(): past LIST_LIMIT entries only the newest
\* LIST_TRIMMED_SIZE are kept.
trim_selections(history) ==
    IF Len(history) > LIST_LIMIT
    THEN SubSeq(history, Len(history) - LIST_TRIMMED_SIZE + 1, Len(history))
    ELSE history

\* clear_history_after_current(): the history and the cursor it leaves.
clear_history_after_current(history, current) ==
    IF current = 0
    THEN [history_list |-> history, current_item |-> current]
    ELSE [history_list |-> del_from(history, current + 1), current_item |-> 0]

\* HistoryList.push_selection(elements): the history and the cursor it leaves.
push_selection(history, current, elements) ==
    IF elements = {}
    THEN [history_list |-> history, current_item |-> current]
    ELSE LET cleared == clear_history_after_current(history, current)
             h == cleared.history_list
         IN  IF h # <<>> /\ h[Len(h)] = elements
             THEN cleared
             ELSE [history_list |-> trim_selections(Append(h, elements)),
                   current_item |-> cleared.current_item]

\* history[i] with i a negative Python index exists.
InRange(history, i) == i < 0 /\ -i <= Len(history)

\* History.push(element)
Push(element) ==
    /\ history_list' = trim_selections(Append(history_list, element))
    /\ call' = Returned("push", "None")
    /\ UNCHANGED <<current_item, compVars, objVars, listVars>>

\* History.jump_back()
JumpBack ==
    /\ current_item > -MaxBack
    /\ \E c \in {IF current_item = 0 THEN -1 ELSE current_item} :
          current_item' = IF c = -Len(history_list) THEN c ELSE c - 1
    /\ call' = Returned("jump_back", "None")
    /\ UNCHANGED <<history_list, compVars, objVars, listVars>>

\* History.jump_forward()
JumpForward ==
    /\ current_item' = IF history_list = <<>> \/ current_item >= -1
                       THEN current_item ELSE current_item + 1
    /\ call' = Returned("jump_forward", "None")
    /\ UNCHANGED <<history_list, compVars, objVars, listVars>>

\* HistoryList.push_selection(elements)
PushSelection(elements) ==
    /\ \E r \in {push_selection(history_list, current_item, elements)} :
          /\ history_list' = r.history_list
          /\ current_item' = r.current_item
    /\ call' = Called("push_selection", [elements |-> elements], "None")
    /\ UNCHANGED <<compVars, objVars, listVars>>

\* HistoryList.jump_back(active_elements): at cursor 0 the active elements
\* are pushed and the cursor set to -1; at the oldest entry None is returned;
\* otherwise the cursor moves back and the entry under it is returned, an
\* IndexError if there is none.
ListJumpBack(active) ==
    /\ current_item > -MaxBack
    /\ UNCHANGED <<compVars, objVars, listVars>>
    /\ \E r \in {IF current_item = 0
                 THEN [history_list |->
                           push_selection(history_list, current_item, active).history_list,
                       current_item |-> -1]
                 ELSE [history_list |-> history_list, current_item |-> current_item]} :
          /\ history_list' = r.history_list
          /\ IF r.current_item = -Len(r.history_list)
             THEN /\ current_item' = r.current_item
                  /\ call' = Called("jump_back", [active |-> active], [found |-> {}])
             ELSE /\ current_item' = r.current_item - 1
                  /\ call' = IF InRange(r.history_list, r.current_item - 1)
                             THEN Called("jump_back", [active |-> active],
                                         [found |-> {r.history_list[Len(r.history_list)
                                                       + r.current_item]}])
                             ELSE Failed("jump_back", [active |-> active], "IndexError")

\* HistoryList.jump_forward(active_elements)
ListJumpForward(active) ==
    /\ UNCHANGED <<history_list, compVars, objVars, listVars>>
    /\ IF history_list = <<>> \/ current_item >= -1
       THEN /\ current_item' = current_item
            /\ call' = Called("jump_forward", [active |-> active], [found |-> {}])
       ELSE /\ current_item' = current_item + 1
            /\ call' = IF InRange(history_list, current_item + 1)
                       THEN Called("jump_forward", [active |-> active],
                                   [found |-> {history_list[Len(history_list)
                                                 + current_item + 2]}])
                       ELSE Failed("jump_forward", [active |-> active], "IndexError")

InitHistory == NoComponent /\ NoObject /\ NoList /\ NoCall /\ NoHistory

NextHistory ==
    \/ \E element \in Elements1 : Push(element)
    \/ JumpBack
    \/ JumpForward

SpecHistory == InitHistory /\ [][NextHistory]_vars

NextHistoryList ==
    \/ \E elements \in Selections : PushSelection(elements)
    \/ \E active \in Selections : ListJumpBack(active)
    \/ \E active \in Selections : ListJumpForward(active)

SpecHistoryList == InitHistory /\ [][NextHistoryList]_vars

-----------------------------------------------------------------------------
(* Properties of the topology algorithms                                   *)

PairwiseDisjoint(groups) ==
    \A a, b \in DOMAIN groups : a # b => groups[a] \cap groups[b] = {}

\* The image of a component converted to Edge kind and back to its own kind.
EdgeRoundTrip(m, k, idx) ==
    IF k = "edge" THEN idx
    ELSE polyListComponentConversion(
             m, "edge",
             to_edge(m, k, idx, IF k \in {"vert", "map"} THEN {"internal"} ELSE {}).indices,
             k, IF k = "face" THEN {"internal"} ELSE {})

\* C1: the groups yielded by connected() are pairwise disjoint and the union of
\* their indices is the image of the input converted to Edge kind and back.
C1_GroupsDisjointUnionIsEdgeRoundTrip ==
    (op = "connected" /\ ~ret.raised) =>
        /\ PairwiseDisjoint(ret.val)
        /\ UNION Range(ret.val) = EdgeRoundTrip(mesh, kind, indices)

\* The elements of idx linked to an element of S by a shared vertex.
Linked(m, k, idx, S) ==
    {j \in idx : \E i \in S : VertsOf(m, k, i) \cap VertsOf(m, k, j) # {}}

\* The elements of idx linked to S by a chain of elements of idx in which
\* consecutive elements share a vertex.
RECURSIVE Cluster(_, _, _, _)
Cluster(m, k, idx, S) ==
    IF Linked(m, k, idx, S) \subseteq S THEN S
    ELSE Cluster(m, k, idx, S \cup Linked(m, k, idx, S))

Clusters(m, k, idx) == {Cluster(m, k, idx, {i}) : i \in idx}

\* C2: connected() on an edge or face component yields exactly the maximal
\* subsets of the input whose elements are chained by shared vertices.
C2_GroupsAreVertexConnectedClusters ==
    (op = "connected" /\ kind \in {"edge", "face"} /\ indices # {}) =>
        /\ ~ret.raised
        /\ Range(ret.val) = Clusters(mesh, kind, indices)
        /\ PairwiseDisjoint(ret.val)

\* The faces the component converts to.
FaceSet(m, k, idx) == polyListComponentConversion(m, k, idx, "face", {})

\* S is one whole mesh shell: closed under edge adjacency, non-empty, and with
\* no smaller non-empty closed part.
IsMeshShell(m, S) ==
    /\ S # {}
    /\ EdgeNeighbours(MFnMesh(m), S) \subseteq S
    /\ \A T \in SUBSET S :
          (T # {} /\ EdgeNeighbours(MFnMesh(m), T) \subseteq T) => T = S

\* C3 as stated: every face of every entry of mesh_shells of a face component
\* belongs to the component's own face set.
C3_ShellsStayInsideFaceSet ==
    (op = "mesh_shells" /\ kind = "face" /\ indices # {} /\ ~ret.raised) =>
        \A n \in DOMAIN ret.val : ret.val[n] \subseteq FaceSet(mesh, kind, indices)

\* C3 amended: every entry of mesh_shells is one whole mesh shell of the mesh
\* that holds a face of the component's face set, converted to the component's
\* kind; every face of the face set lies in one entry, and no shell is
\* entered twice.
C3_ShellsAreWholeMeshShells ==
    (op = "mesh_shells" /\ FaceSet(mesh, kind, indices) # {}) =>
        /\ ~ret.raised
        /\ \A n \in DOMAIN ret.val :
              \E S \in SUBSET Elements(mesh, "face") :
                  /\ IsMeshShell(mesh, S)
                  /\ S \cap FaceSet(mesh, kind, indices) # {}
                  /\ ret.val[n] = IF kind = "face" THEN S
                                  ELSE polyListComponentConversion(mesh, "face", S, kind, {})
        /\ \A f \in FaceSet(mesh, kind, indices) :
              \E n \in DOMAIN ret.val :
                  IF kind = "face" THEN f \in ret.val[n]
                  ELSE polyListComponentConversion(mesh, "face", {f}, kind, {})
                          \subseteq ret.val[n]
        /\ \A a, b \in DOMAIN ret.val : a # b => ret.val[a] # ret.val[b]

\* A face component whose mesh_shells entry holds a face outside the component.
C3_ShellLeavesFaceSet ==
    /\ op = "mesh_shells"
    /\ kind = "face"
    /\ ~ret.raised
    /\ \E n \in DOMAIN ret.val : ~(ret.val[n] \subseteq indices)

RECURSIVE SumOfSizes(_, _)
SumOfSizes(f, D) ==
    IF D = {} THEN 0
    ELSE LET d == CHOOSE x \in D : TRUE
         IN  Cardinality(f[d]) + SumOfSizes(f, D \ {d})

\* C4: mesh_shells of a complete Face component partitions the faces of the
\* mesh: the sizes sum to the face count, every shell is one connected group,
\* the 2x2 plane gives 1 shell of 4 faces and the two disjoint quads 2 shells.
C4_CompleteFaceShellsPartitionMesh ==
    (op = "mesh_shells" /\ kind = "face" /\ is_complete(mesh, kind, indices)) =>
        /\ ~ret.raised
        /\ SumOfSizes(ret.val, DOMAIN ret.val) = ElementCount(mesh, "face")
        /\ UNION Range(ret.val) = Elements(mesh, "face")
        /\ PairwiseDisjoint(ret.val)
        /\ \A n \in DOMAIN ret.val :
              /\ ~get_connected_components(mesh, "face", ret.val[n], TRUE).raised
              /\ Len(get_connected_components(mesh, "face", ret.val[n], TRUE).groups) = 1
        /\ mesh = "plane2x2" =>
              Cardinality(DOMAIN ret.val) = 1 /\ Cardinality(ret.val[0]) = 4
        /\ mesh = "twoquads" => Cardinality(DOMAIN ret.val) = 2

\* The complete Face component of the two disjoint quads, its shells read.
C4_TwoQuadsGiveTwoShells ==
    /\ op = "mesh_shells"
    /\ mesh = "twoquads"
    /\ kind = "face"
    /\ is_complete(mesh, kind, indices)
    /\ ~ret.raised
    /\ Cardinality(DOMAIN ret.val) = 2

-----------------------------------------------------------------------------
(* Properties of the component's caches                                    *)

\* C6: after add() every cached derived value is dropped, so each read of
\* points, bbox, mesh shells and UV shells returns the value of the current
\* index set.
C6_ReadsReflectCurrentIndices ==
    /\ op = "points" => ret.val = points(mesh, kind, indices, space)
    /\ (op = "bbox" /\ ~ret.raised) => ret.val = bbox(mesh, kind, indices, space)
    /\ (op = "mesh_shells" /\ ~ret.raised) =>
          ret.val = mesh_shells(mesh, kind, indices).shells
    /\ (op = "map_shells" /\ ~ret.raised) =>
          ret.val = map_shells(mesh, kind, indices).shells

-----------------------------------------------------------------------------
(* Properties of the cache layer                                           *)

\* C7 as stated: when the invalidating method's body runs every cache reachable
\* from the instance is empty, and no read after it is served a value computed
\* from the data of before.
C7_EveryReachableCacheCleared ==
    /\ op = "invalidating" =>
          /\ inval.body.memo = <<>>
          /\ inval.body.keyed = <<>>
          /\ inval.body.lazy = <<>>
          /\ inval.body.child_memo = <<>>
    /\ op \in {"memoized", "keyed", "lazy", "child"} => ret.val = version

\* C7 amended: when the invalidating method's body runs the instance's memoized
\* method results and its keyed cache are empty, and no memoized or keyed read
\* after it is served a value of before; the lazy property values and the
\* collaborator's cache of before the call are still in place.
C7_MemoizedAndKeyedCachesCleared ==
    /\ op = "invalidating" =>
          /\ inval.body.memo = <<>>
          /\ inval.body.keyed = <<>>
          /\ inval.body.child_memo = inval.entry.child_memo
          /\ \A n \in DOMAIN inval.entry.lazy : inval.body.lazy[n] = inval.entry.lazy[n]
    /\ op \in {"memoized", "keyed"} => ret.val = version

\* The invalidating method called while every cache holds a value.
C7_InvalidatedWithEveryCacheFilled ==
    /\ op = "invalidating"
    /\ inval.entry.memo # <<>>
    /\ inval.entry.keyed # <<>>
    /\ inval.entry.lazy # <<>>
    /\ inval.entry.child_memo # <<>>

-----------------------------------------------------------------------------
(* Properties of the component collection                                  *)

\* The position cache is the same before and after, except at position i.
SameCacheExceptAt(i) ==
    \A k \in (DOMAIN lcache \cup DOMAIN lcache') \ {i} :
        k \in DOMAIN lcache /\ k \in DOMAIN lcache' /\ lcache'[k] = lcache[k]

-----------------------------------------------------------------------------
(* Properties of building a collection                                     *)

\* Whether the from_ls call asked for an unmerged list.
LsUnmerged(param) ==
    \/ param.merge = "False"
    \/ param.merge = "absent" /\ need_ordered_selection_set(param.kw)

\* C11: a collection built without merging holds exactly its input entries,
\* one position each, in the input order, duplicates and entries of the same
\* mesh and kind included.
C11_UnmergedKeepsEveryEntryInOrder ==
    /\ (op \in {"from_strings", "construct"} /\ ~ret.raised /\ ~ret.param.merge) =>
          slist = ret.param.elements
    /\ (op = "from_ls" /\ ~ret.raised /\ LsUnmerged(ret.param)) =>
          slist = ret.param.elements

\* An unmerged collection built from the same entry twice.
C11_BuiltFromDuplicates ==
    /\ op = "from_strings"
    /\ ~ret.param.merge
    /\ Len(ret.param.elements) = 2
    /\ ret.param.elements[1] = ret.param.elements[2]
    /\ Len(slist) = 2

\* C12: from_ls raises OrderedSelectionsNotSet exactly when it is given one of
\* fl, flatten, os, orderedSelection while selection-order tracking is off,
\* and then builds no list.
C12_FromLsRaisesOnlyWithoutTracking ==
    op = "from_ls" =>
        /\ (ret.raised /\ ret.val = "OrderedSelectionsNotSet")
              <=> (need_ordered_selection_set(ret.param.kw) /\ ~ret.param.tracking)
        /\ ret.raised => slist = <<>>

-----------------------------------------------------------------------------
(* Properties of toggle                                                    *)

\* The component a toggle is made against: other's indices, or every index of
\* the kind.
Against(other) == IF other.given THEN other.indices ELSE Elements(mesh, kind)

\* C13: toggle(other) with other on the receiver's mesh returns a component
\* holding the symmetric difference of both index sets; toggle() returns the
\* complement of the receiver's indices.
C13_ToggleIsSymmetricDifference ==
    (op = "toggle" /\ (ret.param.other.given => ret.param.other.mesh = mesh)) =>
        /\ ~ret.raised
        /\ ~ret.val.none
        /\ ret.val.indices = (indices \ Against(ret.param.other))
                                \cup (Against(ret.param.other) \ indices)

\* C14: toggling twice against the same other, or twice against nothing,
\* returns a component with the original index set.
C14_ToggleTwiceIsIdentity ==
    /\ (op = "toggle" /\ (ret.param.other.given => ret.param.other.mesh = mesh)) =>
          ~ret.raised
    /\ (op = "toggle_again" /\ (ret.param.other.given => ret.param.other.mesh = mesh)) =>
          ~ret.raised /\ ~ret.val.none /\ ret.val.indices = indices

-----------------------------------------------------------------------------
(* Properties of conversions and border queries                            *)

\* The edges of mesh m that belong to exactly one face.
MeshBoundaryEdges(m) ==
    {e \in Elements(m, "edge") :
        Cardinality({f \in Elements(m, "face") :
                        Range(getEdgeVertices(m, e)) \subseteq getPolygonVertices(m, f)}) = 1}

\* The mesh-boundary edges of the faces in the set faces.
BoundaryEdgesOfFaces(m, faces) ==
    {e \in MeshBoundaryEdges(m) :
        \E f \in faces : Range(getEdgeVertices(m, e)) \subseteq getPolygonVertices(m, f)}

\* C16: convert_to raises nothing and returns a component holding the converted
\* elements, an empty component when the conversion yields none.
C16_ConvertToReturnsComponent ==
    op = "convert_to" =>
        /\ ~ret.raised
        /\ ret.val.indices =
              polyListComponentConversion(mesh, kind, indices, ret.param.to, ret.param.kw)

\* C17: a Face component converted to Edge with the border flag gives the
\* provider's border conversion together with the mesh-boundary edges of the
\* selected faces, and no other edge.
C17_BorderConversionRecoversBoundaryEdges ==
    (op = "to_edge" /\ kind = "face" /\ "border" \in ret.param.kw) =>
        /\ ~ret.raised
        /\ ret.val.indices =
              polyListComponentConversion(mesh, "face", indices, "edge", {"border"})
                \cup BoundaryEdgesOfFaces(mesh, indices)

\* C18: is_border(index) answers for the element index names: a face with a
\* mesh-boundary edge, a mesh-boundary edge, or a vertex or UV point whose
\* conversion to Edge with internal=True holds a mesh-boundary edge.
C18_IsBorderAnswersForArgument ==
    op = "is_border" =>
        /\ ~ret.raised
        /\ ret.val.border =
              CASE kind = "face" -> BoundaryEdgesOfFaces(mesh, {ret.param.index}) # {}
                [] kind = "edge" -> ret.param.index \in MeshBoundaryEdges(mesh)
                [] OTHER ->
                     polyListComponentConversion(mesh, kind, {ret.param.index}, "edge",
                                                 {"internal"})
                       \cap MeshBoundaryEdges(mesh) # {}

-----------------------------------------------------------------------------
(* Properties of edge loops                                                *)

\* The vertices that are an end of exactly one edge of idx.
ChainEnds(m, idx) ==
    {v \in edge_verts(m, idx) :
        Cardinality({e \in idx : v \in Range(getEdgeVertices(m, e))}) = 1}

\* idx is an open chain of connected edges: one cluster, no vertex on more
\* than two of its edges, two vertices on one edge only.
IsOpenChain(m, idx) ==
    /\ idx # {}
    /\ Clusters(m, "edge", idx) = {idx}
    /\ \A v \in edge_verts(m, idx) :
          Cardinality({e \in idx : v \in Range(getEdgeVertices(m, e))}) <= 2
    /\ Cardinality(ChainEnds(m, idx)) = 2

\* The vertex pair of the edge of idx that holds the chain end v.
EndPair(m, idx, v) ==
    Range(getEdgeVertices(m, CHOOSE e \in idx : v \in Range(getEdgeVertices(m, e))))

\* C19: for an open chain of edges the outer components are two, one for each
\* chain end and holding the vertex pair of the edge at that end, and the inner
\* component holds every vertex of the chain but the two ends.
C19_OuterPairsAtBothEndsInnerTheRest ==
    (op = "get_outer_edges_in_loop" /\ IsOpenChain(mesh, indices)) =>
        /\ ~ret.raised
        /\ Len(ret.val.outer) = 2
        /\ \E f \in [1..2 -> ChainEnds(mesh, indices)] :
              /\ f[1] # f[2]
              /\ \A n \in 1..2 : ret.val.outer[n] = EndPair(mesh, indices, f[n])
        /\ ret.val.inner = edge_verts(mesh, indices) \ ChainEnds(mesh, indices)

\* The outer edges of an open chain of three or more edges were returned.
C19_OuterEdgesOfLongChain ==
    /\ op = "get_outer_edges_in_loop"
    /\ IsOpenChain(mesh, indices)
    /\ Cardinality(indices) >= 3
    /\ ret.val.inner # {}

\* The vertex pairs of a list as sets, and the vertices in them.
PairSet(pairs) == {Range(pairs[n]) : n \in DOMAIN pairs}
PairVerts(pairs) == UNION PairSet(pairs)

\* The vertices a chain of the pairs links to the vertices of S.
RECURSIVE PairCluster(_, _)
PairCluster(pairs, S) ==
    IF \A p \in PairSet(pairs) : p \cap S # {} => p \subseteq S THEN S
    ELSE PairCluster(pairs, S \cup UNION {p \in PairSet(pairs) : p \cap S # {}})

\* The list is a simple open chain: no pair twice, all pairs linked, no vertex
\* in more than two pairs, two vertices in one pair only.
IsSimpleOpenChain(pairs) ==
    /\ pairs # <<>>
    /\ Cardinality(PairSet(pairs)) = Len(pairs)
    /\ PairCluster(pairs, Range(pairs[1])) = PairVerts(pairs)
    /\ \A v \in PairVerts(pairs) : Cardinality({p \in PairSet(pairs) : v \in p}) <= 2
    /\ Cardinality({v \in PairVerts(pairs) :
                       Cardinality({p \in PairSet(pairs) : v \in p}) = 1}) = 2

\* C20: for a simple open chain of vertex pairs in any order and orientation
\* the returned order holds every vertex of the chain exactly once, and every
\* two consecutive vertices of it are the two ends of one input pair.
C20_VertOrderTraversesWholeChain ==
    (op = "get_vert_order_on_edge_row" /\ IsSimpleOpenChain(ret.param.pairs)) =>
        /\ ~ret.raised
        /\ Len(ret.val.order) = Cardinality(PairVerts(ret.param.pairs))
        /\ Range(ret.val.order) = PairVerts(ret.param.pairs)
        /\ \A n \in 1..(Len(ret.val.order) - 1) :
              {ret.val.order[n], ret.val.order[n + 1]} \in PairSet(ret.param.pairs)

-----------------------------------------------------------------------------
(* Properties of the coordinate space                                      *)

\* C21: setting the space leaves the indices as they are, and the points, the
\* bounding box and the normals a read returns are those of the space that is
\* selected at the read, for the elements the value speaks of.
C21_ReadsAreInSelectedSpace ==
    /\ op = "space" => ret.val = space
    /\ op = "points" =>
          \E S \in SUBSET Elements(mesh, kind) : ret.val = points(mesh, kind, S, space)
    /\ (op = "bbox" /\ ~ret.raised) =>
          \E S \in (SUBSET Elements(mesh, kind)) \ {{}} :
             ret.val = bbox(mesh, kind, S, space)
    /\ (op = "normals" /\ kind # "map") =>
          /\ ~ret.raised
          /\ kind = "vert" => ret.val = getVertexNormals(mesh, space)
          /\ kind = "face" =>
                \A i \in DOMAIN ret.val : ret.val[i] = getPolygonNormal(mesh, i, space)

-----------------------------------------------------------------------------
(* Properties of cache lookups                                             *)

\* C22: no cached call raises; one with an unhashable key returns the value
\* computed at the call, and a plain call returns a value too.
C22_LookupsNeverRaise ==
    /\ op \in {"memoized", "keyed", "memoized_unhashable", "keyed_unhashable"} =>
          ~ret.raised
    /\ op \in {"memoized_unhashable", "keyed_unhashable"} => ret.val = version

-----------------------------------------------------------------------------
(* Properties of slicing, equality and copies                              *)

\* C23: a slice is a new collection that holds the entries at the sliced
\* positions, in order, as many as there are positions, none for an empty
\* slice.
C23_SliceHoldsSlicedEntries ==
    op = "slice" =>
        /\ ~ret.raised
        /\ Len(ret.val.list) = Cardinality(slice_indices(slist, ret.param.start, ret.param.stop))
        /\ \A n \in DOMAIN ret.val.list : ret.val.list[n] = slist[ret.param.start + n]

\* C24: two collections compare equal exactly when they are of one length and
\* every entry of the other is an entry of this one, and two collections of
\* one length that hold different components compare unequal.
C24_EqualIffSameLengthAndEntries ==
    op = "eq" =>
        /\ ret.val.equal =
              (/\ Len(slist) = Len(ret.param.other)
               /\ Range(ret.param.other) \subseteq Range(slist))
        /\ (Len(slist) = Len(ret.param.other) /\ Range(slist) # Range(ret.param.other)) =>
              ~ret.val.equal

-----------------------------------------------------------------------------
(* Properties of is_complete and get_complete                              *)

\* C25: is_complete() is true exactly when the component holds as many indices
\* as the mesh has elements of its kind, whether the component was filled by
\* add or made by get_complete.
C25_CompleteIffAllIndicesHeld ==
    op = "is_complete" =>
        ret.val.complete =
            (Cardinality(IF ret.param.of = "receiver" THEN indices
                         ELSE Elements(mesh, kind)) = ElementCount(mesh, kind))

C27_GetItemReturnsEntryAtPosition ==
    [][\A key \in KeysOf(slist) :
          (op' = "getitem" /\ slist # <<>> /\ GetItem(key)) =>
              /\ ~ret'.raised
              /\ ret'.val = slist[Position(slist, key) + 1]]_vars

-----------------------------------------------------------------------------
(* Properties of a copied collection                                       *)

\* C28: once a collection has a copy, no call made on the copy (indexing,
\* remove, pop, replace, update) changes the length of the original or what
\* the original returns at any position, and no call made on the original
\* changes the length of the copy or what the copy returns at any position.
C28_CopyAndOriginalIndependent ==
    [][(HasCopy /\ HasCopy') =>
          /\ (op' \in CopyOps =>
                 Returns(slist', lcache') = Returns(slist, lcache))
          /\ (op' \in OriginalOps =>
                 Returns(copied'[1], lcache') = Returns(copied[1], lcache))]_vars

-----------------------------------------------------------------------------
(* Properties of the jump history                                          *)

\* The entries of a history at or before the position of the cursor, oldest
\* first.
UpToCurrent(history, current) == SubSeq(history, 1, Len(history) + current + 1)

\* C29: push_selection of a non-empty selection, made after a jump left the
\* cursor on an entry of a history short of the limit, keeps every entry at
\* or before the cursor at the front of the history in its order, and
\* resets the cursor to 0, the newest position.
C29_PushKeepsEntriesUpToCurrent ==
    [][\A elements \in Selections \ {{}} :
          (/\ op' = "push_selection"
           /\ InRange(history_list, current_item)
           /\ Len(history_list) < LIST_LIMIT
           /\ PushSelection(elements)) =>
              /\ current_item' = 0
              /\ Len(history_list') >= Len(UpToCurrent(history_list, current_item))
              /\ SubSeq(history_list', 1, Len(UpToCurrent(history_list, current_item)))
                     = UpToCurrent(history_list, current_item)]_vars

\* C30: in History the cursor is 0 or a negative index of an entry the
\* history holds, whatever pushes and jumps were made.
C30_CursorOnAnEntryOrZero ==
    current_item = 0 \/ InRange(history_list, current_item)

=============================================================================
